---- MODULE Spec2Model ----
(***************************************************************************)
(* Approximate quantum compiler (qiskit.transpiler.synthesis.aqc).         *)
(*                                                                         *)
(* Part 1: the CNOT-network generator of cnot_structures.py.  One call of  *)
(* make_cnot_network is a process: its arguments, its locals and its       *)
(* position in the code are the state, each loop body is one action.       *)
(* Part 2: one ParametricCircuit object of parametric_circuit.py, its      *)
(* constructor and its methods.                                            *)
(*                                                                         *)
(* Arrays are sequences of rows; Python index k is TLA+ index k + 1, the   *)
(* stored qubit numbers are the values the code stores.  float64 angles    *)
(* are integers.  Arguments have the types of their annotations, so the    *)
(* isinstance/dtype asserts hold; asserts on values are modelled.          *)
(***************************************************************************)
EXTENDS Integers, Sequences, FiniteSets, TLC

VARIABLES
    pc,                 \* position of the running call
    args,               \* the arguments of the call, as passed
    depth,              \* local `depth` (reassigned when the argument is <= 0)
    links,              \* local `links` of the sequ layout
    cnots,              \* local `cnots`
    layer,              \* local `layer` (`z` in the cyclic_spin branch)
    i,                  \* loop variable i (loop counter `_` in the cart branch)
    j,                  \* loop variable j
    mult,               \* local `mult` of _cartan_network
    exc,                \* exception that ended the call, "none" otherwise
    obj,                \* life of the ParametricCircuit object
    ctor,               \* the arguments of ParametricCircuit(...), as passed
    _num_qubits,        \* self._num_qubits
    _cnots,             \* self._cnots
    _num_cnots,         \* self._num_cnots
    _thetas,            \* self._thetas
    _gradient,          \* self._gradient
    call,               \* the last method call on the object and how it ended
    selected,           \* the backend last bound with success (history)
    caller,             \* the arrays the caller passed to ParametricCircuit(...)
    util,               \* the last call of a bit or permutation utility
    aqc,                \* the fields of the AQC object
    run,                \* the compile_unitary call in progress
    dg                  \* a DefaultGradient object and its last get_gradient call

net == <<pc, args, depth, links, cnots, layer, i, j, mult, exc>>
circuit == <<obj, ctor, _num_qubits, _cnots, _num_cnots, _thetas, _gradient, call, selected,
             caller>>
aux == <<util, aqc, run, dg>>
vars == <<net, circuit, aux>>

----------------------------------------------------------------------------
(* Bounds of the exploration. *)

MaxQubits == 4
MaxDepth == 7
MaxThetas == 24         \* methods are explored on circuits of at most so many angles

(* cnot_structures.py:21-22 *)
_NETWORK_LAYOUTS == {"sequ", "spin", "cart", "cyclic_spin", "cyclic_line"}
_CONNECTIVITY_TYPES == {"full", "line", "star"}

(* argument values: the supported names and one unsupported name *)
LayoutNames == _NETWORK_LAYOUTS \cup {"ring"}
ConnectivityNames == _CONNECTIVITY_TYPES \cup {"grid"}
QubitCounts == 1..MaxQubits
Depths == (-1)..MaxDepth

----------------------------------------------------------------------------
(* numpy helpers *)

RECURSIVE Pow(_, _)
Pow(b, e) == IF e = 0 THEN 1 ELSE b * Pow(b, e - 1)

(* np.floor in place of np.ceil *)
CeilDiv4_Floor(x) == x \div 4

(* np.ceil(x / 4.0) for an integer x >= 0 *)
CeilDiv4(x) == IF x % 4 = 0 THEN x \div 4 ELSE (x \div 4) + 1

(* np.zeros((2, n)) *)
Zeros2(n) == <<[k \in 1..n |-> 0], [k \in 1..n |-> 0]>>

(* the conversion to 1-based indices left out *)
PlusOne_Dropped(a) == a

(* a + 1 on a 2-row array *)
PlusOne(a) == <<[k \in 1..Len(a[1]) |-> a[1][k] + 1], [k \in 1..Len(a[2]) |-> a[2][k] + 1]>>

(* np.hstack((a, b)) on 2-row arrays *)
HStack(a, b) == <<a[1] \o b[1], a[2] \o b[2]>>

(* np.tile(a, r) on a 2-row array *)
RECURSIVE Tile(_, _)
Tile(a, r) == IF r = 0 THEN <<<<>>, <<>>>> ELSE HStack(a, Tile(a, r - 1))

(* cnots[0, k] = a; cnots[1, k] = b   (k is the Python index) *)
SetColumn(c, k, a, b) == [c EXCEPT ![1][k + 1] = a, ![2][k + 1] = b]

NumColumns(c) == Len(c[1])

----------------------------------------------------------------------------
(* lower_limit *)

lower_limit(num_qubits) == CeilDiv4(Pow(4, num_qubits) - 3 * num_qubits - 1)

(* get_connectivity, for a supported connectivity name *)
get_connectivity(num_qubits, connectivity) ==
    IF num_qubits = 1 THEN [q \in {1} |-> {1}]
    ELSE IF connectivity = "full" THEN [q \in 1..num_qubits |-> 1..num_qubits]
    ELSE IF connectivity = "line" THEN
        [q \in 1..num_qubits |->
            IF q = 1 THEN {1, 2}
            ELSE IF q = num_qubits THEN {num_qubits - 1, num_qubits}
            ELSE {q - 1, q, q + 1}]
    ELSE \* "star"
        [q \in 1..num_qubits |-> IF q = 1 THEN 1..num_qubits ELSE {1, q}]

(* get_connectivity raises ValueError *)
ConnectivityRaises(num_qubits, connectivity) ==
    num_qubits # 1 /\ connectivity \notin _CONNECTIVITY_TYPES

(* check_cnots: TRUE when every assert of the function passes *)
check_cnots(num_qubits, c) ==
    /\ num_qubits >= 1
    /\ Len(c) = 2 /\ Len(c[1]) = Len(c[2])
    /\ \A r \in 1..2 : \A k \in 1..Len(c[r]) : 1 <= c[r][k] /\ c[r][k] <= num_qubits
    /\ \A k \in 1..Len(c[1]) : c[1][k] # c[2][k]

----------------------------------------------------------------------------
(* The call frame. *)

NoArray == <<<<>>, <<>>>>
NoLinks == <<>>

(* raise e out of make_cnot_network, the local `depth` holding d *)
Raise(e, d) ==
    /\ pc' = "done"
    /\ exc' = e
    /\ depth' = d
    /\ UNCHANGED <<args, links, cnots, layer, i, j, mult>>

(* the closed-form network of _cartan_network for three qubits *)
Cartan3 ==
    << <<1, 1, 1, 2, 1, 2, 1, 1, 1, 2, 1, 2, 1, 1, 1, 1, 2, 1, 2, 1, 1, 1>>,
       <<2, 2, 2, 3, 3, 3, 2, 2, 2, 3, 3, 3, 3, 2, 2, 2, 3, 3, 3, 2, 2, 2>> >>

(* `depth < 0` in place of `depth <= 0` *)
EffectiveDepth_StrictSign(num_qubits, d) == IF d < 0 THEN lower_limit(num_qubits) ELSE d

(* the depth make_cnot_network works with: `depth`, or lower_limit when *)
(* the argument is not positive                                         *)
EffectiveDepth(num_qubits, d) == IF d <= 0 THEN lower_limit(num_qubits) ELSE d

(* make_cnot_network up to the first loop of the selected layout *)
make_cnot_network ==
    /\ pc = "call"
    /\ UNCHANGED <<circuit, aux>>
    /\ LET n == args.num_qubits
           d == EffectiveDepth(n, args.depth)
       IN
       IF args.depth <= 0 /\ n < 2 THEN
           Raise("AssertionError", args.depth)      \* the assert of lower_limit
       ELSE IF args.network_layout = "sequ" THEN
           IF ConnectivityRaises(n, args.connectivity_type) THEN
               Raise("ValueError", d)
           ELSE
               /\ pc' = "sequ"
               /\ depth' = d
               /\ links' = get_connectivity(n, args.connectivity_type)
               /\ cnots' = Zeros2(d)
               /\ layer' = 0
               /\ i' = 1
               /\ j' = 2
               /\ UNCHANGED <<args, mult, exc>>
       ELSE IF args.network_layout = "spin" THEN
           /\ pc' = "spin_first"
           /\ depth' = d
           /\ cnots' = Zeros2(d)
           /\ layer' = 0
           /\ i' = 1
           /\ UNCHANGED <<args, links, j, mult, exc>>
       ELSE IF args.network_layout = "cart" THEN
           IF n > 3 THEN
               /\ pc' = "cart"
               /\ depth' = d
               /\ cnots' = << <<1, 1, 1>>, <<2, 2, 2>> >>
               /\ mult' = << <<n - 1, n - 2, n - 1, n - 2>>, <<n, n, n, n>> >>
               /\ i' = 0
               /\ UNCHANGED <<args, links, layer, j, exc>>
           ELSE IF n = 3 THEN
               /\ pc' = "done"
               /\ depth' = d
               /\ cnots' = Cartan3
               /\ UNCHANGED <<args, links, layer, i, j, mult, exc>>
           ELSE
               Raise("ValueError", d)
       ELSE IF args.network_layout = "cyclic_spin" THEN
           IF args.connectivity_type # "full" THEN
               Raise("AssertionError", d)
           ELSE
               /\ pc' = "cyclic_spin_first"
               /\ depth' = d
               /\ cnots' = Zeros2(d)
               /\ layer' = 0
               /\ i' = 0
               /\ UNCHANGED <<args, links, j, mult, exc>>
       ELSE IF args.network_layout = "cyclic_line" THEN
           IF args.connectivity_type # "line" THEN
               Raise("AssertionError", d)
           ELSE
               /\ pc' = "cyclic_line"
               /\ depth' = d
               /\ cnots' = Zeros2(d)
               /\ i' = 0
               /\ UNCHANGED <<args, links, layer, j, mult, exc>>
       ELSE
           Raise("ValueError", d)

(* inner loop started at i in place of i + 1 *)
SequentialNext_FromI(n, ii, jj) ==
    IF jj + 1 < n + 1 THEN <<ii, jj + 1>>
    ELSE IF ii + 1 < n THEN <<ii + 1, ii + 1>>
    ELSE <<1, 2>>

(* _sequential_network: one pass of the body of the inner for loop; the *)
(* loops  for i in range(1, n): for j in range(i + 1, n + 1)  restart    *)
(* under `while True` when exhausted                                     *)
SequentialNext(n, ii, jj) ==
    IF jj + 1 < n + 1 THEN <<ii, jj + 1>>
    ELSE IF ii + 1 < n THEN <<ii + 1, ii + 2>>
    ELSE <<1, 2>>

_sequential_network ==
    /\ pc = "sequ"
    /\ i < args.num_qubits
    /\ LET hit == j \in links[i]
           nxt == SequentialNext(args.num_qubits, i, j)
       IN
       /\ cnots' = IF hit THEN SetColumn(cnots, layer, i, j) ELSE cnots
       /\ layer' = IF hit THEN layer + 1 ELSE layer
       /\ IF hit /\ layer + 1 >= depth
          THEN pc' = "done" /\ UNCHANGED <<i, j>>
          ELSE pc' = "sequ" /\ i' = nxt[1] /\ j' = nxt[2]
    /\ UNCHANGED <<circuit, aux>>
    /\ UNCHANGED <<args, depth, links, mult, exc>>

(* _sequential_network with one qubit: range(1, 1) is empty and the body *)
(* of `while True` does nothing                                          *)
_sequential_network_empty ==
    /\ pc = "sequ"
    /\ ~(i < args.num_qubits)
    /\ UNCHANGED vars

(* _spin_network, first loop: for i in range(1, n, 2) *)
_spin_network_first ==
    /\ pc = "spin_first"
    /\ i < args.num_qubits
    /\ cnots' = SetColumn(cnots, layer, i, i + 1)
    /\ layer' = layer + 1
    /\ IF layer + 1 >= depth THEN pc' = "done" /\ UNCHANGED i
       ELSE IF i + 2 < args.num_qubits THEN pc' = "spin_first" /\ i' = i + 2
       ELSE IF 2 < args.num_qubits THEN pc' = "spin_second" /\ i' = 2
       ELSE pc' = "spin_first" /\ i' = 1
    /\ UNCHANGED <<circuit, aux>>
    /\ UNCHANGED <<args, depth, links, j, mult, exc>>

(* _spin_network, second loop: for i in range(2, n, 2) *)
_spin_network_second ==
    /\ pc = "spin_second"
    /\ cnots' = SetColumn(cnots, layer, i, i + 1)
    /\ layer' = layer + 1
    /\ IF layer + 1 >= depth THEN pc' = "done" /\ UNCHANGED i
       ELSE IF i + 2 < args.num_qubits THEN pc' = "spin_second" /\ i' = i + 2
       ELSE pc' = "spin_first" /\ i' = 1
    /\ UNCHANGED <<circuit, aux>>
    /\ UNCHANGED <<args, depth, links, j, mult, exc>>

(* _spin_network with one qubit: both ranges are empty *)
_spin_network_empty ==
    /\ pc = "spin_first"
    /\ ~(i < args.num_qubits)
    /\ UNCHANGED vars

(* _cartan_network, one pass of  for _ in range(n - 2)  (n > 3) *)
CartanGrow(c, m) == HStack(Tile(HStack(c, m), 3), c)
CartanMult(m) == Tile([m EXCEPT ![1][Len(m[1])] = @ - 1], 2)

_cartan_network ==
    /\ pc = "cart"
    /\ cnots' = CartanGrow(cnots, mult)
    /\ mult' = CartanMult(mult)
    /\ i' = i + 1
    /\ pc' = IF i + 1 < args.num_qubits - 2 THEN "cart" ELSE "done"
    /\ UNCHANGED <<circuit, aux>>
    /\ UNCHANGED <<args, depth, links, layer, j, exc>>

(* cyclic_spin, first loop: for i in range(0, n, 2) *)
cyclic_spin_first ==
    /\ pc = "cyclic_spin_first"
    /\ LET n == args.num_qubits
           hit == i + 1 <= n - 1
           z == IF hit THEN layer + 1 ELSE layer
           c == IF hit THEN SetColumn(cnots, layer, i, i + 1) ELSE cnots
       IN
       /\ layer' = z
       /\ IF z >= depth THEN pc' = "done" /\ cnots' = PlusOne(c) /\ UNCHANGED i
          ELSE /\ cnots' = c
               /\ IF i + 2 < n THEN pc' = "cyclic_spin_first" /\ i' = i + 2
                  ELSE IF 1 < n THEN pc' = "cyclic_spin_second" /\ i' = 1
                  ELSE pc' = "cyclic_spin_first" /\ i' = 0
    /\ UNCHANGED <<circuit, aux>>
    /\ UNCHANGED <<args, depth, links, j, mult, exc>>

(* cyclic_spin, second loop: for i in range(1, n, 2) *)
cyclic_spin_second ==
    /\ pc = "cyclic_spin_second"
    /\ LET n == args.num_qubits
           hit == i + 1 <= n - 1
           wrap == ~hit /\ i = n - 1
           z == IF hit \/ wrap THEN layer + 1 ELSE layer
           c == IF hit THEN SetColumn(cnots, layer, i, i + 1)
                ELSE IF wrap THEN SetColumn(cnots, layer, i, 0)
                ELSE cnots
       IN
       /\ layer' = z
       /\ IF z >= depth THEN pc' = "done" /\ cnots' = PlusOne(c) /\ UNCHANGED i
          ELSE /\ cnots' = c
               /\ IF i + 2 < n THEN pc' = "cyclic_spin_second" /\ i' = i + 2
                  ELSE pc' = "cyclic_spin_first" /\ i' = 0
    /\ UNCHANGED <<circuit, aux>>
    /\ UNCHANGED <<args, depth, links, j, mult, exc>>

(* cyclic_line: for i in range(depth), then cnots += 1 *)
cyclic_line ==
    /\ pc = "cyclic_line"
    /\ LET n == args.num_qubits
           c == SetColumn(cnots, i, (i + 0) % n, (i + 1) % n)
       IN
       /\ i' = i + 1
       /\ IF i + 1 < depth THEN pc' = "cyclic_line" /\ cnots' = c
          ELSE pc' = "done" /\ cnots' = PlusOne(c)
    /\ UNCHANGED <<circuit, aux>>
    /\ UNCHANGED <<args, depth, links, layer, j, mult, exc>>

----------------------------------------------------------------------------
(* Calls of make_cnot_network with every argument combination. *)

None == <<>>            \* an absent optional array (no array argument is empty)
NoCall == [op |-> "none", thetas |-> None, nonzero_mask |-> None, exc |-> "none",
           backend |-> "None", tol |-> 0, reverse |-> FALSE, result |-> <<>>]
NoKwargs == [keys |-> {}, layout |-> "spin", connectivity |-> "full", depth |-> 0]

(* no utility is called and no AQC object is involved *)
NoUtil == [fn |-> "none"]
NoValue == -1           \* None for an optional number (no number passed is negative)
NoAQC == [made |-> FALSE, maxiter |-> NoValue, eta |-> NoValue,
          _maxiter |-> NoValue, _eta |-> NoValue]
NoRun == [stage |-> "none", calls |-> 0, side |-> 0, num_qubits |-> 0,
          maxiter |-> NoValue, eta |-> NoValue, exc |-> "none"]
NoDG == [made |-> "none"]
NoAux ==
    /\ util = NoUtil
    /\ aqc = NoAQC
    /\ run = NoRun
    /\ dg = NoDG

(* the caller holds no array: cnots and thetas are the contents of the  *)
(* arrays passed to the constructor, shared the fields of the circuit   *)
(* that live in the storage of one of them, written the arrays the      *)
(* caller has modified since                                            *)
NoCaller == [cnots |-> None, thetas |-> None, shared |-> {}, written |-> {}]

(* no ParametricCircuit is involved *)
NoCircuit ==
    /\ obj = "none"
    /\ ctor = [num_qubits |-> 0, cnots |-> None, thetas |-> None,
               gradient |-> "None", kwargs |-> NoKwargs]
    /\ _num_qubits = 0
    /\ _cnots = None
    /\ _num_cnots = 0
    /\ _thetas = None
    /\ _gradient = "None"
    /\ call = NoCall
    /\ selected = "None"
    /\ caller = NoCaller

InitNet ==
    /\ pc = "call"
    /\ args \in [num_qubits : QubitCounts, network_layout : LayoutNames,
                 connectivity_type : ConnectivityNames, depth : Depths]
    /\ depth = args.depth
    /\ links = NoLinks
    /\ cnots = NoArray
    /\ layer = 0
    /\ i = 0
    /\ j = 0
    /\ mult = NoArray
    /\ exc = "none"
    /\ NoCircuit
    /\ NoAux

NextNet ==
    \/ make_cnot_network
    \/ _sequential_network
    \/ _sequential_network_empty
    \/ _spin_network_first
    \/ _spin_network_second
    \/ _spin_network_empty
    \/ _cartan_network
    \/ cyclic_spin_first
    \/ cyclic_spin_second
    \/ cyclic_line

SpecNet == InitNet /\ [][NextNet]_vars

(* the call runs on one thread that takes its next step whenever it has one *)
SpecNetFair == SpecNet /\ WF_vars(NextNet)

----------------------------------------------------------------------------
(* generate_random_cnots.  The call uses the frame of make_cnot_network:  *)
(* args holds num_qubits, depth and set_depth_limit, cnots the local      *)
(* array, i the loop variable.                                            *)

MaxRandomQubits == 16   \* cnot_structures.py:181
MaxShuffled == 8        \* the tiled array has at most so many entries

(* np.tile(np.arange(n).reshape(n, 1), d): n rows, row r filled with r *)
TileArange(n, d) == [r \in 1..n |-> [k \in 1..d |-> r - 1]]

(* the orders np.random.shuffle can leave a column of n entries in *)
Shuffles(column) ==
    {p \in [1..Len(column) -> {column[r] : r \in 1..Len(column)}] :
        \A a, b \in 1..Len(column) : a # b => p[a] # p[b]}

(* cnots[:, k]  (k is the Python index) *)
ColumnOf(c, k) == [r \in 1..Len(c) |-> c[r][k + 1]]

(* cnots[:, k] = column *)
SetColumnOf(c, k, column) == [r \in 1..Len(c) |-> [c[r] EXCEPT ![k + 1] = column[r]]]

(* cnots[0:2, :].copy() *)
FirstTwoRows(c) == SubSeq(c, 1, IF Len(c) < 2 THEN Len(c) ELSE 2)

(* a + 1 on an array of any number of rows *)
AddOne(a) == [r \in 1..Len(a) |-> [k \in 1..Len(a[r]) |-> a[r][k] + 1]]

(* generate_random_cnots up to the shuffle loop *)
generate_random_cnots ==
    /\ pc = "call"
    /\ UNCHANGED <<circuit, aux>>
    /\ LET n == args.num_qubits
       IN
       IF ~(1 <= n /\ n <= MaxRandomQubits) \/ ~(1 <= args.depth) THEN
           Raise("AssertionError", args.depth)
       ELSE IF args.set_depth_limit /\ n < 2 THEN
           Raise("AssertionError", args.depth)      \* the assert of lower_limit
       ELSE
           LET d == IF args.set_depth_limit /\ lower_limit(n) < args.depth
                    THEN lower_limit(n) ELSE args.depth
           IN  /\ pc' = "shuffle"
               /\ depth' = d
               /\ cnots' = TileArange(n, d)
               /\ i' = 0
               /\ UNCHANGED <<args, links, layer, j, mult, exc>>

(* one pass of  for i in range(depth): np.random.shuffle(cnots[:, i]);  *)
(* after the last one the first two rows are copied and made 1-based    *)
generate_random_cnots_shuffle ==
    /\ pc = "shuffle"
    /\ \E column \in Shuffles(ColumnOf(cnots, i)) :
          LET c == SetColumnOf(cnots, i, column)
          IN  IF i + 1 < depth
              THEN pc' = "shuffle" /\ cnots' = c
              ELSE pc' = "done" /\ cnots' = AddOne(FirstTwoRows(c))
    /\ i' = i + 1
    /\ UNCHANGED <<circuit, aux>>
    /\ UNCHANGED <<args, depth, links, layer, j, mult, exc>>

(* the calls: every qubit count around the accepted range and every depth *)
(* from 0 for which the tiled array stays small                           *)
RandomQubitCounts == 0..MaxQubits \cup {MaxRandomQubits + 1}
RandomArgs ==
    {a \in [num_qubits : RandomQubitCounts, depth : 0..MaxShuffled,
            set_depth_limit : BOOLEAN] :
        (1 <= a.num_qubits /\ a.num_qubits <= MaxRandomQubits)
            => a.num_qubits * a.depth <= MaxShuffled}

InitRandom ==
    /\ pc = "call"
    /\ args \in RandomArgs
    /\ depth = args.depth
    /\ links = NoLinks
    /\ cnots = NoArray
    /\ layer = 0
    /\ i = 0
    /\ j = 0
    /\ mult = NoArray
    /\ exc = "none"
    /\ NoCircuit
    /\ NoAux

NextRandom ==
    \/ generate_random_cnots
    \/ generate_random_cnots_shuffle

SpecRandom == InitRandom /\ [][NextRandom]_vars

----------------------------------------------------------------------------
(* ParametricCircuit. *)

PARAM_LAYOUT == "layout"
PARAM_CONNECTIVITY == "connectivity"
PARAM_DEPTH == "depth"
ALL_PARAMS == {PARAM_LAYOUT, PARAM_CONNECTIVITY, PARAM_DEPTH}

(* kwargs.get(key, default); kwargs is the set of its keys and the values *)
(* of the three known ones                                                *)
KwargsGet(kwargs, key, default) == IF key \in kwargs.keys THEN kwargs[key] ELSE default

(* ndarray.size of an array given by its rows *)
RECURSIVE Size(_)
Size(a) == IF a = <<>> THEN 0 ELSE Len(Head(a)) + Size(Tail(a))

(* cnots.size > 0 and cnots.shape == (2, cnots.size // 2) *)
ShapeOk(c) ==
    /\ Size(c) > 0
    /\ Len(c) = 2
    /\ Len(c[1]) = Size(c) \div 2

(* the two factors exchanged *)
NumThetas_Swapped(num_qubits, num_cnots) == 4 * num_qubits + 3 * num_cnots

(* num_thetas (and num_angles) for given self._num_qubits, self._num_cnots *)
NumThetas(num_qubits, num_cnots) == 3 * num_qubits + 4 * num_cnots

num_thetas == NumThetas(_num_qubits, _num_cnots)
num_angles == NumThetas(_num_qubits, _num_cnots)

(* one entry short *)
FullZero_Short(n) == [k \in 1..(n - 1) |-> 0]

(* np.full(n, fill_value=0) *)
FullZero(n) == [k \in 1..n |-> 0]

(* np.copyto(dst, src) for arrays of one size: the new contents of dst *)
CopyTo(dst, src) == [k \in 1..Len(dst) |-> src[k]]

(* the fill left out *)
Fill_Skipped(a, v) == a

(* a.fill(v): the new contents of a *)
Fill(a, v) == [k \in 1..Len(a) |-> v]

(* np.count_nonzero(mask[lo..hi]), by halving the range *)
RECURSIVE CountRange(_, _, _)
CountRange(mask, lo, hi) ==
    IF lo > hi THEN 0
    ELSE IF lo = hi THEN (IF mask[lo] THEN 1 ELSE 0)
    ELSE LET mid == (lo + hi) \div 2
         IN  CountRange(mask, lo, mid) + CountRange(mask, mid + 1, hi)

(* np.count_nonzero(mask) *)
CountNonzero(mask) == CountRange(mask, 1, Len(mask))

(* entries lo..hi of a after a[mask] = values, `used` values being taken *)
(* by the entries before lo                                              *)
RECURSIVE AssignRange(_, _, _, _, _, _)
AssignRange(a, mask, values, lo, hi, used) ==
    IF lo > hi THEN <<>>
    ELSE IF lo = hi THEN <<IF mask[lo] THEN values[used + 1] ELSE a[lo]>>
    ELSE LET mid == (lo + hi) \div 2
         IN  AssignRange(a, mask, values, lo, mid, used)
             \o AssignRange(a, mask, values, mid + 1, hi, used + CountRange(mask, lo, mid))

(* a[mask] = values for a boolean mask of the size of a with as many true *)
(* entries as there are values: the new contents of a; the k-th true      *)
(* entry of the mask takes the k-th value                                 *)
MaskedAssign(a, mask, values) == AssignRange(a, mask, values, 1, Len(a), 0)

Called(op, thetas, nonzero_mask, e) ==
    [NoCall EXCEPT !.op = op, !.thetas = thetas, !.nonzero_mask = nonzero_mask, !.exc = e]

fields == <<_num_qubits, _cnots, _num_cnots, _thetas, _gradient>>

(* __init__ ends with exception e: no object *)
InitRaises(e) ==
    /\ obj' = "failed"
    /\ call' = Called("__init__", None, None, e)
    /\ UNCHANGED <<ctor, fields, selected, caller>>

(* the array `cnots` of __init__ after line 86: the argument of the *)
(* caller, or the array make_cnot_network has made                  *)
Passed(c) == [data |-> c, base |-> IF ctor.cnots = None THEN "own" ELSE "caller"]

(* self._cnots = cnots: the field is the array of the caller *)
ndarray_copy_Reference(a) == a

(* cnots.copy(): the same contents in storage of its own *)
ndarray_copy(a) == [data |-> a.data, base |-> "own"]

(* __init__ from the checks of the CNOT structure c to its end *)
InitWith(c) ==
    IF ~ShapeOk(c) THEN InitRaises("AssertionError")
    ELSE
        LET L == Len(c[1])
            zeros == FullZero(NumThetas(ctor.num_qubits, L))
        IN
        IF ctor.thetas # None /\ Len(ctor.thetas) # NumThetas(ctor.num_qubits, L)
        THEN InitRaises("ValueError")           \* raised by set_thetas
        ELSE
            /\ obj' = "live"
            /\ _num_qubits' = ctor.num_qubits
            /\ _cnots' = ndarray_copy(Passed(c)).data
            /\ _num_cnots' = L
            /\ _thetas' = IF ctor.thetas = None THEN zeros ELSE CopyTo(zeros, ctor.thetas)
            /\ _gradient' = ctor.gradient
            /\ selected' = ctor.gradient
            /\ call' = Called("__init__", None, None, "none")
            /\ caller' = [cnots |-> ctor.cnots, thetas |-> ctor.thetas, written |-> {},
                          shared |-> IF ndarray_copy(Passed(c)).base = "caller"
                                     THEN {"_cnots"} ELSE {}]
            /\ UNCHANGED ctor

(* ParametricCircuit.__init__, up to the call of make_cnot_network when *)
(* no CNOT structure is passed                                          *)
ParametricCircuit_init ==
    /\ obj = "new"
    /\ IF ctor.num_qubits < 1 THEN
           InitRaises("AssertionError") /\ UNCHANGED <<net, aux>>
       ELSE IF ctor.cnots = None THEN
           IF ~(ctor.kwargs.keys \subseteq ALL_PARAMS) THEN
               InitRaises("ValueError") /\ UNCHANGED <<net, aux>>
           ELSE
               /\ obj' = "init"
               /\ pc' = "call"
               /\ args' = [num_qubits |-> ctor.num_qubits,
                           network_layout |-> KwargsGet(ctor.kwargs, PARAM_LAYOUT, "spin"),
                           connectivity_type |-> KwargsGet(ctor.kwargs, PARAM_CONNECTIVITY, "full"),
                           depth |-> KwargsGet(ctor.kwargs, PARAM_DEPTH, 0)]
               /\ depth' = KwargsGet(ctor.kwargs, PARAM_DEPTH, 0)
               /\ UNCHANGED <<links, cnots, layer, i, j, mult, exc>>
               /\ UNCHANGED <<ctor, fields, call, selected, caller, aux>>
       ELSE
           InitWith(ctor.cnots) /\ UNCHANGED <<net, aux>>

(* ParametricCircuit.__init__ after make_cnot_network has returned or raised *)
ParametricCircuit_init_network ==
    /\ obj = "init"
    /\ pc = "done"
    /\ IF exc # "none" THEN InitRaises(exc) ELSE InitWith(cnots)
    /\ UNCHANGED <<net, aux>>

(* ParametricCircuit.set_thetas *)
set_thetas(thetas) ==
    /\ obj = "live"
    /\ IF Len(thetas) # num_thetas THEN
           /\ call' = Called("set_thetas", thetas, None, "ValueError")
           /\ UNCHANGED _thetas
       ELSE
           /\ _thetas' = CopyTo(_thetas, thetas)
           /\ call' = Called("set_thetas", thetas, None, "none")
    /\ UNCHANGED <<obj, ctor, _num_qubits, _cnots, _num_cnots, _gradient, selected>>
    /\ UNCHANGED <<net, aux, caller>>

(* the comparison left out *)
MaskMismatch_Unchecked(nonzero_mask, thetas) == FALSE

(* np.count_nonzero(nonzero_mask) != thetas.size *)
MaskMismatch(nonzero_mask, thetas) == CountNonzero(nonzero_mask) # Len(thetas)

(* ParametricCircuit.set_nonzero_thetas *)
set_nonzero_thetas(thetas, nonzero_mask) ==
    /\ obj = "live"
    /\ IF Len(nonzero_mask) # num_thetas THEN
           /\ call' = Called("set_nonzero_thetas", thetas, nonzero_mask, "ValueError")
           /\ UNCHANGED _thetas
       ELSE IF MaskMismatch(nonzero_mask, thetas) THEN
           /\ call' = Called("set_nonzero_thetas", thetas, nonzero_mask, "ValueError")
           /\ UNCHANGED _thetas
       ELSE
           /\ _thetas' = MaskedAssign(Fill(_thetas, 0), nonzero_mask, thetas)
           /\ call' = Called("set_nonzero_thetas", thetas, nonzero_mask, "none")
    /\ UNCHANGED <<obj, ctor, _num_qubits, _cnots, _num_cnots, _gradient, selected>>
    /\ UNCHANGED <<net, aux, caller>>

(* the hard cap of the qubit count of a gradient backend *)
MaxBackendQubits == 16

(* DefaultGradient.__init__: the asserts on its arguments fail *)
DefaultGradientRaises(num_qubits, c) ==
    ~(1 <= num_qubits /\ num_qubits <= MaxBackendQubits /\ Len(c) = 2)

(* FastGradient.__init__: a qubit count beyond the cap is refused *)
FastGradientRaises(num_qubits, c) ==
    ~(1 <= num_qubits /\ num_qubits <= MaxBackendQubits)

(* if self._gradient: del self._gradient; self._gradient = None *)
Dispose(gradient) == IF gradient # "None" THEN "None" ELSE gradient

(* ParametricCircuit.init_gradient_backend *)
init_gradient_backend(backend) ==
    /\ obj = "live"
    /\ LET disposed == Dispose(_gradient)
           bind(name, raises) ==
               IF raises
               THEN /\ _gradient' = disposed
                    /\ selected' = selected
                    /\ call' = [Called("init_gradient_backend", None, None, "AssertionError")
                                   EXCEPT !.backend = backend]
               ELSE /\ _gradient' = name
                    /\ selected' = name
                    /\ call' = [Called("init_gradient_backend", None, None, "none")
                                   EXCEPT !.backend = backend]
       IN  IF backend = "default"
           THEN bind("default", DefaultGradientRaises(_num_qubits, _cnots))
           ELSE IF backend = "fast"
           THEN bind("fast", FastGradientRaises(_num_qubits, _cnots))
           ELSE /\ _gradient' = disposed
                /\ selected' = selected
                /\ call' = [Called("init_gradient_backend", None, None, "ValueError")
                               EXCEPT !.backend = backend]
    /\ UNCHANGED <<obj, ctor, _num_qubits, _cnots, _num_cnots, _thetas>>
    /\ UNCHANGED <<net, aux, caller>>

(* how the get_gradient of a backend can end: it returns or it raises *)
BackendOutcomes == {"none", "BackendError"}

(* ParametricCircuit.get_gradient: the backend is handed self._thetas *)
get_gradient ==
    /\ obj = "live"
    /\ IF _gradient = "None"
       THEN call' = Called("get_gradient", None, None, "RuntimeError")
       ELSE \E e \in BackendOutcomes :
              call' = [Called("get_gradient", _thetas, None, e) EXCEPT !.backend = _gradient]
    /\ UNCHANGED <<obj, ctor, fields, selected>>
    /\ UNCHANGED <<net, aux, caller>>

(* np.abs *)
Abs(x) == IF x < 0 THEN -x ELSE x

(* thetas[p] for a 0-based index p *)
At(thetas, p) == thetas[p + 1]

(* a gate handed to the QuantumCircuit: qc.rz, qc.ry, qc.rx(angle, qubit) *)
(* and qc.cx(control, target)                                             *)
Rotation(kind, angle, qubit) == [gate |-> kind, angle |-> angle, qubits |-> <<qubit>>]
Cx(q1, q2) == [gate |-> "cx", angle |-> 0, qubits |-> <<q1, q2>>]

(* the threshold met by an angle equal to it *)
Emit_AtLeast(kind, angle, qubit, tol) ==
    IF Abs(angle) >= tol THEN <<Rotation(kind, angle, qubit)>> ELSE <<>>

(* if np.abs(thetas[..]) > tol: qc.r?(thetas[..], qubit) *)
Emit(kind, angle, qubit, tol) ==
    IF Abs(angle) > tol THEN <<Rotation(kind, angle, qubit)>> ELSE <<>>

(* the qubit a 0-based index q of n is mapped to *)
QubitOf(n, q, reverse) == IF reverse THEN q ELSE n - q - 1

(* first loop of to_qiskit: passes k, k+1, .., n-1 *)
RECURSIVE QiskitRotations(_, _, _, _, _, _)
QiskitRotations(n, L, thetas, tol, reverse, k) ==
    IF k >= n THEN <<>>
    ELSE LET p == 4 * L + 3 * k
             q == QubitOf(n, k, reverse)
         IN  Emit("rz", At(thetas, 2 + p), q, tol)
             \o Emit("ry", At(thetas, 1 + p), q, tol)
             \o Emit("rz", At(thetas, 0 + p), q, tol)
             \o QiskitRotations(n, L, thetas, tol, reverse, k + 1)

(* second loop of to_qiskit: passes c, c+1, .., L-1 *)
RECURSIVE QiskitUnits(_, _, _, _, _, _, _)
QiskitUnits(n, L, c_nots, thetas, tol, reverse, c) ==
    IF c >= L THEN <<>>
    ELSE LET p == 4 * c
             q1 == QubitOf(n, c_nots[1][c + 1] - 1, reverse)
             q2 == QubitOf(n, c_nots[2][c + 1] - 1, reverse)
         IN  <<Cx(q1, q2)>>
             \o Emit("ry", At(thetas, 0 + p), q1, tol)
             \o Emit("rz", At(thetas, 1 + p), q1, tol)
             \o Emit("ry", At(thetas, 2 + p), q2, tol)
             \o Emit("rx", At(thetas, 3 + p), q2, tol)
             \o QiskitUnits(n, L, c_nots, thetas, tol, reverse, c + 1)

(* ParametricCircuit.to_qiskit: the gates of the circuit it returns *)
to_qiskit(tol, reverse) ==
    /\ obj = "live"
    /\ call' = [Called("to_qiskit", None, None, "none") EXCEPT
                  !.tol = tol, !.reverse = reverse,
                  !.result = QiskitRotations(_num_qubits, _num_cnots, _thetas, tol, reverse, 0)
                             \o QiskitUnits(_num_qubits, _num_cnots, _cnots, _thetas,
                                            tol, reverse, 0)]
    /\ UNCHANGED <<obj, ctor, fields, selected>>
    /\ UNCHANGED <<net, aux, caller>>

(* the CNOT multiplied from the left: C = CNOT1 . U2 . U1 *)
NumpyUnit_CnotLast(c_nots, thetas, l) ==
    LET p == 4 * l
        q1 == c_nots[1][l + 1]
        q2 == c_nots[2][l + 1]
    IN  << Cx(q1, q2),
           Rotation("rx", At(thetas, 3 + p), q2), Rotation("ry", At(thetas, 2 + p), q2),
           Rotation("rz", At(thetas, 1 + p), q1), Rotation("ry", At(thetas, 0 + p), q1) >>

(* the factors, from left to right, of one CNOT unit of to_numpy:        *)
(* C = U2 . U1 . CNOT1 with u1 = b . a and u2 = d . c, for the 0-based l *)
NumpyUnit(c_nots, thetas, l) ==
    LET p == 4 * l
        q1 == c_nots[1][l + 1]
        q2 == c_nots[2][l + 1]
    IN  << Rotation("rx", At(thetas, 3 + p), q2), Rotation("ry", At(thetas, 2 + p), q2),
           Rotation("rz", At(thetas, 1 + p), q1), Rotation("ry", At(thetas, 0 + p), q1),
           Cx(q1, q2) >>

(* V after the passes 0..l-1 of the first loop of to_numpy: V = C . V *)
RECURSIVE NumpyUnits(_, _, _)
NumpyUnits(c_nots, thetas, l) ==
    IF l = 0 THEN <<>>
    ELSE NumpyUnit(c_nots, thetas, l - 1) \o NumpyUnits(c_nots, thetas, l - 1)

(* V1, the Kronecker product of a . b . c over the qubits k..n-1 *)
RECURSIVE NumpyRotations(_, _, _, _)
NumpyRotations(n, L, thetas, k) ==
    IF k >= n THEN <<>>
    ELSE LET p == 4 * L + 3 * k
         IN  << Rotation("rz", At(thetas, 0 + p), k), Rotation("ry", At(thetas, 1 + p), k),
                Rotation("rz", At(thetas, 2 + p), k) >>
             \o NumpyRotations(n, L, thetas, k + 1)

(* how the elementary operations can end on a CNOT structure *)
NumpyOutcomes(n, c_nots) ==
    IF check_cnots(n, c_nots) THEN {"none"} ELSE {"none", "OperationError"}

(* ParametricCircuit.to_numpy: the factors of the matrix it returns, from *)
(* left to right                                                          *)
to_numpy ==
    /\ obj = "live"
    /\ \E e \in NumpyOutcomes(_num_qubits, _cnots) :
         call' = [Called("to_numpy", None, None, e) EXCEPT
                    !.result = IF e # "none" THEN <<>>
                               ELSE NumpyUnits(_cnots, _thetas, _num_cnots)
                                    \o NumpyRotations(_num_qubits, _num_cnots, _thetas, 0)]
    /\ UNCHANGED <<obj, ctor, fields, selected>>
    /\ UNCHANGED <<net, aux, caller>>

----------------------------------------------------------------------------
(* The arguments the object is constructed and called with. *)

(* angle vectors of a given size: constant and increasing *)
ThetaVectors(size) == {[k \in 1..size |-> 1], [k \in 1..size |-> k]}

(* the values for a mask with `count` true entries, and one too many *)
MaskedValues(count) == {[k \in 1..c |-> 10 + k] : c \in {count, count + 1}}

(* boolean masks of a given size: all true, all false, every second entry *)
Masks(size) == {[k \in 1..size |-> (k % m) = r] : m \in 1..2, r \in 0..1}

(* the masks set_nonzero_thetas is called with: those of the right size *)
(* and one that is too long                                             *)
MaskArgs(size) == Masks(size) \cup {[k \in 1..(size + 1) |-> TRUE]}

(* CNOT structures passed explicitly for n qubits: every single column    *)
(* over 0..n+1; two columns that are valid, hold a self-pair, or hold     *)
(* indices out of range; arrays of shape (1, 2), (3, 1) and (2, 0)        *)
ExplicitCnots(n) ==
    {<< <<a>>, <<b>> >> : a \in 0..(n + 1), b \in 0..(n + 1)}
    \cup {<< <<1, 2>>, <<2, 1>> >>, << <<1, 1>>, <<2, 1>> >>, << <<1, 0>>, <<2, n + 1>> >>}
    \cup {<< <<1, 2>> >>, << <<1>>, <<2>>, <<1>> >>, << <<>>, <<>> >>}

(* keyword arguments: none (spin, full, default depth), a misspelled one, *)
(* every layout with depth 2, and the layouts that look at the            *)
(* connectivity with the connectivities they accept or reject             *)
KwargsSets ==
    {NoKwargs, [NoKwargs EXCEPT !.keys = {"topology"}]}
    \cup {[NoKwargs EXCEPT !.keys = {PARAM_LAYOUT, PARAM_DEPTH}, !.layout = l, !.depth = 2] :
            l \in LayoutNames}
    \cup {[keys |-> ALL_PARAMS, layout |-> l, connectivity |-> c, depth |-> 1] :
            l \in {"sequ", "cyclic_line"}, c \in {"line", "grid"}}

(* the thetas argument of the constructor for n qubits *)
CtorThetas(n) ==
    {None, [k \in 1..NumThetas(n, 1) |-> k], [k \in 1..NumThetas(n, 2) |-> k],
     [k \in 1..(NumThetas(n, 1) + 1) |-> k]}

(* the gradient argument of the constructor: none, or a GradientBase *)
(* object of the caller                                              *)
CtorGradients == {"None", "custom"}

(* the names init_gradient_backend is called with *)
BackendNames == {"default", "fast", "slow"}

(* the thresholds to_qiskit is called with *)
Tolerances == {0, 2}

CtorArgs ==
    {[num_qubits |-> n, cnots |-> c, thetas |-> t, gradient |-> g, kwargs |-> NoKwargs] :
        n \in QubitCounts, c \in UNION {ExplicitCnots(m) : m \in QubitCounts},
        t \in UNION {CtorThetas(m) : m \in QubitCounts}, g \in CtorGradients}
    \cup
    {[num_qubits |-> n, cnots |-> None, thetas |-> t, gradient |-> g, kwargs |-> kw] :
        n \in QubitCounts, kw \in KwargsSets,
        t \in UNION {CtorThetas(m) : m \in QubitCounts}, g \in CtorGradients}

Init ==
    /\ obj = "new"
    /\ ctor \in {a \in CtorArgs :
                    /\ a.gradient = "None"
                    /\ a.thetas \in CtorThetas(a.num_qubits)
                    /\ a.cnots # None => a.cnots \in ExplicitCnots(a.num_qubits)}
    /\ _num_qubits = 0
    /\ _cnots = None
    /\ _num_cnots = 0
    /\ _thetas = None
    /\ _gradient = "None"
    /\ call = NoCall
    /\ selected = "None"
    /\ caller = NoCaller
    /\ pc = "idle"
    /\ args = [num_qubits |-> 0, network_layout |-> "spin",
               connectivity_type |-> "full", depth |-> 0]
    /\ depth = 0
    /\ links = NoLinks
    /\ cnots = NoArray
    /\ layer = 0
    /\ i = 0
    /\ j = 0
    /\ mult = NoArray
    /\ exc = "none"
    /\ NoAux

Next ==
    \/ ParametricCircuit_init
    \/ ParametricCircuit_init_network
    \/ make_cnot_network
    \/ _sequential_network
    \/ _sequential_network_empty
    \/ _spin_network_first
    \/ _spin_network_second
    \/ _spin_network_empty
    \/ _cartan_network
    \/ cyclic_spin_first
    \/ cyclic_spin_second
    \/ cyclic_line
    \/ /\ num_thetas <= MaxThetas
       /\ \E size \in {num_thetas - 1, num_thetas, num_thetas + 1} :
            \E thetas \in ThetaVectors(size) : set_thetas(thetas)
    \/ /\ num_thetas <= MaxThetas
       /\ \E nonzero_mask \in MaskArgs(num_thetas) :
            \E thetas \in MaskedValues(CountNonzero(nonzero_mask)) :
              set_nonzero_thetas(thetas, nonzero_mask)

Spec == Init /\ [][Next]_vars

(* CNOT structures passed explicitly to the circuits whose every method is *)
(* called: a valid one, one with a self-pair, one with indices out of      *)
(* range                                                                   *)
MethodCnots(n) ==
    {<< <<1, 2>>, <<2, 1>> >>, << <<1, 1>>, <<2, 1>> >>, << <<n + 1>>, <<0>> >>}

(* the circuits whose every method is called: generated from keyword *)
(* arguments without a backend, or given explicitly with or without  *)
InitMethods ==
    /\ ctor \in {a \in CtorArgs :
                    /\ a.thetas \in CtorThetas(a.num_qubits)
                    /\ IF a.cnots = None THEN a.gradient = "None"
                       ELSE a.cnots \in MethodCnots(a.num_qubits)}
    /\ obj = "new"
    /\ _num_qubits = 0
    /\ _cnots = None
    /\ _num_cnots = 0
    /\ _thetas = None
    /\ _gradient = "None"
    /\ call = NoCall
    /\ selected = "None"
    /\ caller = NoCaller
    /\ pc = "idle"
    /\ args = [num_qubits |-> 0, network_layout |-> "spin",
               connectivity_type |-> "full", depth |-> 0]
    /\ depth = 0
    /\ links = NoLinks
    /\ cnots = NoArray
    /\ layer = 0
    /\ i = 0
    /\ j = 0
    /\ mult = NoArray
    /\ exc = "none"
    /\ NoAux

(* an angle vector with positive, zero and negative entries *)
SignedVectors(size) == {[k \in 1..size |-> 3 - k]}

NextMethods ==
    \/ Next
    \/ /\ num_thetas <= MaxThetas
       /\ \E thetas \in SignedVectors(num_thetas) : set_thetas(thetas)
    \/ /\ num_thetas <= MaxThetas
       /\ \E backend \in BackendNames : init_gradient_backend(backend)
    \/ /\ num_thetas <= MaxThetas
       /\ get_gradient
    \/ /\ num_thetas <= MaxThetas
       /\ to_numpy
    \/ /\ num_thetas <= MaxThetas
       /\ \E tol \in Tolerances, reverse \in BOOLEAN : to_qiskit(tol, reverse)

SpecMethods == InitMethods /\ [][NextMethods]_vars

----------------------------------------------------------------------------
(* The caller keeps the arrays it passed to the constructor and writes to *)
(* them later.  A field of the circuit that lives in the storage of such  *)
(* an array changes with it.                                              *)

(* a += 1 on a vector *)
AddOneVector(a) == [k \in 1..Len(a) |-> a[k] + 1]

(* the caller runs  cnots += 1  on the array it passed as cnots *)
caller_writes_cnots ==
    /\ obj = "live"
    /\ caller.cnots # None
    /\ "cnots" \notin caller.written
    /\ caller' = [caller EXCEPT !.cnots = AddOne(@), !.written = @ \cup {"cnots"}]
    /\ _cnots' = IF "_cnots" \in caller.shared THEN AddOne(caller.cnots) ELSE _cnots
    /\ UNCHANGED <<obj, ctor, _num_qubits, _num_cnots, _thetas, _gradient, call, selected>>
    /\ UNCHANGED <<net, aux>>

(* the caller runs  thetas += 1  on the array it passed as thetas *)
caller_writes_thetas ==
    /\ obj = "live"
    /\ caller.thetas # None
    /\ "thetas" \notin caller.written
    /\ caller' = [caller EXCEPT !.thetas = AddOneVector(@), !.written = @ \cup {"thetas"}]
    /\ _thetas' = IF "_thetas" \in caller.shared THEN AddOneVector(caller.thetas) ELSE _thetas
    /\ UNCHANGED <<obj, ctor, _num_qubits, _cnots, _num_cnots, _gradient, call, selected>>
    /\ UNCHANGED <<net, aux>>

NextFrame ==
    \/ NextMethods
    \/ caller_writes_cnots
    \/ caller_writes_thetas

(* the circuits built on an array of the caller have one or two qubits; *)
(* the circuits that build their own network have any number            *)
InitFrame == InitMethods /\ (ctor.num_qubits <= 2 \/ ctor.cnots = None)

SpecFrame == InitFrame /\ [][NextFrame]_vars

----------------------------------------------------------------------------
(* Bit and permutation utilities of the fast gradient. An integer array *)
(* is the sequence of its entries: perm[v] is the entry v + 1.          *)

(* getMaxNumBits *)
getMaxNumBits == 16

(* x >> a, x << a, and the bitwise x & y, x | y, x ^ y of naturals *)
ShiftRight(x, a) == x \div Pow(2, a)
ShiftLeft(x, a) == x * Pow(2, a)

RECURSIVE BitAnd(_, _)
BitAnd(x, y) ==
    IF x = 0 \/ y = 0 THEN 0
    ELSE (x % 2) * (y % 2) + 2 * BitAnd(x \div 2, y \div 2)

RECURSIVE BitOr(_, _)
BitOr(x, y) ==
    IF x = 0 THEN y
    ELSE IF y = 0 THEN x
    ELSE (IF x % 2 = 1 \/ y % 2 = 1 THEN 1 ELSE 0) + 2 * BitOr(x \div 2, y \div 2)

RECURSIVE BitXor(_, _)
BitXor(x, y) ==
    IF x = 0 THEN y
    ELSE IF y = 0 THEN x
    ELSE ((x + y) % 2) + 2 * BitXor(x \div 2, y \div 2)

(* np.arange(size) *)
Arange(size) == [v \in 1..size |-> v - 1]

(* np.sort of an integer array, by insertion *)
RECURSIVE Insert(_, _)
Insert(sorted, e) ==
    IF sorted = <<>> THEN <<e>>
    ELSE IF e <= Head(sorted) THEN <<e>> \o sorted
    ELSE <<Head(sorted)>> \o Insert(Tail(sorted), e)

RECURSIVE Sort(_)
Sort(x) == IF x = <<>> THEN <<>> ELSE Insert(Sort(Tail(x)), Head(x))

(* the check left out *)
isPermutation_Any(x) == TRUE

(* isPermutation: np.all(np.sort(x) == np.arange(x.size)) *)
isPermutation(x) == Sort(x) = Arange(Len(x))

(* the loop of ReverseBits after `done` passes, from the values res and x *)
RECURSIVE ReverseLoop(_, _, _, _)
ReverseLoop(res, x, nbits, done) ==
    IF done >= nbits THEN res
    ELSE ReverseLoop(BitOr(ShiftLeft(res, 1), BitAnd(x, 1)), ShiftRight(x, 1), nbits, done + 1)

(* the loop run one pass short *)
ReverseInt_Short(x, nbits) == ReverseLoop(0, x, nbits, 1)

(* ReverseBits of one integer, enabled *)
ReverseInt(x, nbits) == ReverseLoop(0, x, nbits, 0)

(* an argument x of ReverseBits: a single integer or an array of them *)
IntArg(v) == [isint |-> TRUE, values |-> <<v>>]
ArrayArg(a) == [isint |-> FALSE, values |-> a]

(* the outcome of ReverseBits: the exception, the value returned and the    *)
(* caller's x after the call (an array is copied before the loop shifts it) *)
ReverseBits(x, nbits, enable) ==
    LET InRange(v) == 0 <= v /\ v < Pow(2, nbits)
        ok == \A k \in 1..Len(x.values) : InRange(x.values[k])
    IN  IF ~(1 <= nbits /\ nbits <= getMaxNumBits) \/ ~ok
        THEN [exc |-> "AssertionError", result |-> ArrayArg(<<>>), x |-> x]
        ELSE IF ~enable
        THEN [exc |-> "none", result |-> x, x |-> x]
        ELSE [exc |-> "none",
              result |-> [x EXCEPT !.values =
                            [k \in 1..Len(x.values) |-> ReverseInt(x.values[k], nbits)]],
              x |-> x]

(* SwapBits *)
SwapBits(num, a, b) ==
    LET x == BitAnd(BitXor(ShiftRight(num, a), ShiftRight(num, b)), 1)
    IN  BitXor(num, BitOr(ShiftLeft(x, a), ShiftLeft(x, b)))

(* both swaps applied to the same pair of bits *)
Swap2_SamePair(v, a, b, c, d) == SwapBits(SwapBits(v, a, b), a, b)

(* SwapBits(SwapBits(v, a, b), c, d) *)
Swap2(v, a, b, c, d) == SwapBits(SwapBits(v, a, b), c, d)

(* BitPermutation1Q: the exception and the permutation returned *)
BitPermutation1Q(n, k) ==
    IF ~(0 <= k /\ k < n /\ n <= getMaxNumBits)
    THEN [exc |-> "AssertionError", perm |-> <<>>]
    ELSE [exc |-> "none",
          perm |-> IF k # n - 1
                   THEN [v \in 1..Pow(2, n) |-> SwapBits(v - 1, k, n - 1)]
                   ELSE Arange(Pow(2, n))]

(* BitPermutation2Q: the exception and the permutation returned *)
BitPermutation2Q(n, qj, qk) ==
    IF ~(qj # qk /\ 0 <= qj /\ qj < n /\ 0 <= qk /\ qk < n /\ 2 <= n /\ n <= getMaxNumBits)
    THEN [exc |-> "AssertionError", perm |-> <<>>]
    ELSE
        LET N == Pow(2, n)
            each(f(_)) == [exc |-> "none", perm |-> [v \in 1..N |-> f(v - 1)]]
            f1(v) == Swap2(v, qj, n - 2, qk, n - 1)
            f2(v) == Swap2(v, n - 2, n - 1, qj, n - 2)
            f3(v) == SwapBits(v, qj, n - 2)
            f4(v) == SwapBits(v, qk, n - 1)
            f5(v) == v
            f6(v) == Swap2(v, n - 2, n - 1, qk, n - 1)
            f7(v) == SwapBits(v, n - 2, n - 1)
        IN  IF qj < n - 2 THEN
                IF qk < n - 2 THEN each(f1)
                ELSE IF qk = n - 2 THEN each(f2)
                ELSE each(f3)
            ELSE IF qj = n - 2 THEN
                IF qk < n - 2 THEN each(f4)
                ELSE each(f5)
            ELSE
                IF qk < n - 2 THEN each(f6)
                ELSE each(f7)

(* inv[perm] = values for an array inv of zeros: a negative index counts *)
(* from the end, the last of several writes to one entry stays           *)
FancyAssign(size, perm, values) ==
    LET index(e) == IF e < 0 THEN e + size ELSE e
        writers(v) == {w \in 1..Len(perm) : index(perm[w]) = v}
        last(S) == CHOOSE w \in S : \A u \in S : u <= w
    IN  [v \in 1..size |->
           IF writers(v - 1) = {} THEN 0 ELSE values[last(writers(v - 1))]]

(* an index of perm lies outside inv *)
FancyRaises(size, perm) ==
    \E w \in 1..Len(perm) : perm[w] < 0 - size \/ perm[w] >= size

(* InversePermutation: the exception, the array returned and the caller's *)
(* array after the call                                                   *)
InversePermutation(perm) ==
    IF ~isPermutation(perm)
    THEN [exc |-> "AssertionError", inv |-> <<>>, perm |-> perm]
    ELSE IF FancyRaises(Len(perm), perm)
    THEN [exc |-> "IndexError", inv |-> <<>>, perm |-> perm]
    ELSE [exc |-> "none",
          inv |-> FancyAssign(Len(perm), perm, Arange(Len(perm))),
          perm |-> perm]

(* Calls of the utilities with every argument combination: util holds the *)
(* function and its arguments, and the outcome once the call has ended.   *)

Pending == [exc |-> "pending"]

Call_ReverseBits ==
    /\ util.fn = "ReverseBits"
    /\ util.out = Pending
    /\ util' = [util EXCEPT !.out = ReverseBits(util.x, util.nbits, util.enable)]
    /\ UNCHANGED <<net, circuit, aqc, run, dg>>

Call_BitPermutation1Q ==
    /\ util.fn = "BitPermutation1Q"
    /\ util.out = Pending
    /\ util' = [util EXCEPT !.out = BitPermutation1Q(util.n, util.k)]
    /\ UNCHANGED <<net, circuit, aqc, run, dg>>

Call_BitPermutation2Q ==
    /\ util.fn = "BitPermutation2Q"
    /\ util.out = Pending
    /\ util' = [util EXCEPT !.out = BitPermutation2Q(util.n, util.j, util.k)]
    /\ UNCHANGED <<net, circuit, aqc, run, dg>>

Call_InversePermutation ==
    /\ util.fn = "InversePermutation"
    /\ util.out = Pending
    /\ util' = [util EXCEPT !.out = InversePermutation(util.perm)]
    /\ UNCHANGED <<net, circuit, aqc, run, dg>>

(* the inverse handed back to InversePermutation *)
Call_InversePermutation_again ==
    /\ util.fn = "InversePermutation"
    /\ util.out.exc = "none"
    /\ util' = [util EXCEPT !.perm = util.out.inv, !.out = InversePermutation(util.out.inv)]
    /\ UNCHANGED <<net, circuit, aqc, run, dg>>

MaxPermSize == 3        \* arrays handed to InversePermutation have at most so many entries

(* bit counts: up to MaxQubits, and the first count beyond the cap *)
BitCounts == 0..MaxQubits \cup {getMaxNumBits + 1}

(* the x of ReverseBits: integers from -1 to 2^MaxQubits, the empty array *)
(* and arrays of two entries                                              *)
ReverseArgs ==
    {IntArg(v) : v \in (-1)..Pow(2, MaxQubits)}
    \cup {ArrayArg(<<>>)}
    \cup {ArrayArg(<<a, b>>) : a \in (-1)..Pow(2, MaxQubits), b \in {1, 6}}

(* arrays of at most MaxPermSize entries over -1..MaxPermSize *)
PermArgs ==
    UNION {[1..m -> (-1)..MaxPermSize] : m \in 0..MaxPermSize}

UtilCalls ==
    {[fn |-> "ReverseBits", x |-> x, nbits |-> nbits, enable |-> enable, out |-> Pending] :
        x \in ReverseArgs, nbits \in BitCounts \cup {getMaxNumBits}, enable \in BOOLEAN}
    \cup {[fn |-> "BitPermutation1Q", n |-> n, k |-> k, out |-> Pending] :
        n \in BitCounts, k \in (-1)..MaxQubits}
    \cup {[fn |-> "BitPermutation2Q", n |-> n, j |-> qj, k |-> qk, out |-> Pending] :
        n \in BitCounts, qj \in (-1)..MaxQubits, qk \in (-1)..MaxQubits}
    \cup {[fn |-> "InversePermutation", perm |-> perm, out |-> Pending] : perm \in PermArgs}

InitBits ==
    /\ util \in UtilCalls
    /\ aqc = NoAQC
    /\ run = NoRun
    /\ dg = NoDG
    /\ pc = "idle"
    /\ args = [num_qubits |-> 0, network_layout |-> "spin",
               connectivity_type |-> "full", depth |-> 0]
    /\ depth = 0
    /\ links = NoLinks
    /\ cnots = NoArray
    /\ layer = 0
    /\ i = 0
    /\ j = 0
    /\ mult = NoArray
    /\ exc = "none"
    /\ NoCircuit

NextBits ==
    \/ Call_ReverseBits
    \/ Call_BitPermutation1Q
    \/ Call_BitPermutation2Q
    \/ Call_InversePermutation
    \/ Call_InversePermutation_again

SpecBits == InitBits /\ [][NextBits]_vars

----------------------------------------------------------------------------
(* AQC. A step size is counted in hundredths: eta = 0.1 is 10. *)

(* AQC.__init__: the fields, and the arguments maxiter and eta as passed *)
AQC_init(maxiter, eta) ==
    [made |-> TRUE, maxiter |-> maxiter, eta |-> eta, _maxiter |-> maxiter, _eta |-> eta]

(* value or default: None and 0 are false *)
Or(value, default) == IF value = NoValue \/ value = 0 THEN default ELSE value

(* the defaults of three and of four qubits exchanged *)
_compute_optional_parameters_Swapped(self, num_qubits) ==
    IF num_qubits <= 3
    THEN [self EXCEPT !._maxiter = Or(self._maxiter, 350), !._eta = Or(self._eta, 6)]
    ELSE IF num_qubits = 4
    THEN [self EXCEPT !._maxiter = Or(self._maxiter, 200), !._eta = Or(self._eta, 10)]
    ELSE [self EXCEPT !._maxiter = Or(self._maxiter, 500), !._eta = Or(self._eta, 3)]

(* AQC._compute_optional_parameters: the fields after the call *)
_compute_optional_parameters(self, num_qubits) ==
    IF num_qubits <= 3
    THEN [self EXCEPT !._maxiter = Or(self._maxiter, 200), !._eta = Or(self._eta, 10)]
    ELSE IF num_qubits = 4
    THEN [self EXCEPT !._maxiter = Or(self._maxiter, 350), !._eta = Or(self._eta, 6)]
    ELSE [self EXCEPT !._maxiter = Or(self._maxiter, 500), !._eta = Or(self._eta, 3)]

(* int(round(np.log2(side))) for side >= 1: the k with                   *)
(* 2^(k - 1/2) <= side < 2^(k + 1/2), i.e. 2^(2k) <= 2 side^2 < 2^(2k+2) *)
RoundLog2(side) ==
    CHOOSE k \in 0..side :
        Pow(2, 2 * k) <= 2 * side * side /\ 2 * side * side < Pow(2, 2 * k + 2)

MaxRuns == 2            \* compile_unitary is called at most so often on one AQC object

(* AQC.compile_unitary up to the construction of the ParametricCircuit; *)
(* side is target_matrix.shape[0]                                       *)
compile_unitary(side, c_nots, thetas0) ==
    /\ aqc.made
    /\ run.stage \in {"none", "done", "failed"}
    /\ run.calls < MaxRuns
    /\ IF side = 0
       THEN \* np.log2(0) is -inf, which int(round(...)) refuses
            /\ run' = [NoRun EXCEPT !.stage = "failed", !.calls = run.calls + 1,
                                    !.side = side, !.exc = "OverflowError"]
            /\ UNCHANGED <<aqc, circuit>>
       ELSE LET num_qubits == RoundLog2(side)
            IN  /\ aqc' = _compute_optional_parameters(aqc, num_qubits)
                /\ run' = [NoRun EXCEPT !.stage = "circuit", !.calls = run.calls + 1,
                                        !.side = side, !.num_qubits = num_qubits]
                /\ obj' = "new"
                /\ ctor' = [num_qubits |-> num_qubits, cnots |-> c_nots, thetas |-> thetas0,
                            gradient |-> "None", kwargs |-> NoKwargs]
                /\ _num_qubits' = 0
                /\ _cnots' = None
                /\ _num_cnots' = 0
                /\ _thetas' = None
                /\ _gradient' = "None"
                /\ call' = NoCall
                /\ selected' = "None"
                /\ caller' = NoCaller
    /\ UNCHANGED <<net, util, dg>>

(* how GDOptimizer.optimize can end: it returns or it raises *)
OptimizerOutcomes == {"none", "OptimizerError"}

(* the parameters GDOptimizer.optimize can leave in a circuit *)
OptimizedThetas(thetas) == {thetas, [k \in 1..Len(thetas) |-> 1]}

(* AQC.compile_unitary from the end of ParametricCircuit(...): the *)
(* GDOptimizer is made and run                                     *)
compile_unitary_optimize ==
    /\ run.stage = "circuit"
    /\ obj \in {"live", "failed"}
    /\ IF obj = "failed"
       THEN /\ run' = [run EXCEPT !.stage = "failed", !.exc = call.exc]
            /\ UNCHANGED _thetas
       ELSE \E e \in OptimizerOutcomes, thetas \in OptimizedThetas(_thetas) :
              /\ run' = [run EXCEPT !.stage = IF e = "none" THEN "done" ELSE "failed",
                                    !.maxiter = aqc._maxiter, !.eta = aqc._eta, !.exc = e]
              /\ _thetas' = thetas
    /\ UNCHANGED <<obj, ctor, _num_qubits, _cnots, _num_cnots, _gradient, call, selected,
                   caller>>
    /\ UNCHANGED <<net, util, aqc, dg>>

(* the arguments maxiter and eta of AQC(...): None, 0, the defaults of *)
(* __init__ and another value                                          *)
MaxiterArgs == {NoValue, 0, 100, 250}
EtaArgs == {NoValue, 0, 10, 20}

(* target_matrix.shape[0]: 0, the powers of two up to 32 and the sides *)
(* next to each rounding boundary of log2                             *)
Sides == {0, 1, 2, 3, 4, 6, 8, 11, 12, 16, 22, 23, 32}

(* the thetas0 of compile_unitary: zeros for two CNOT units on m qubits *)
Thetas0Args == {FullZero(NumThetas(m, 2)) : m \in 1..(MaxQubits + 1)}

InitAQC ==
    /\ aqc \in {AQC_init(maxiter, eta) : maxiter \in MaxiterArgs, eta \in EtaArgs}
    /\ run = NoRun
    /\ util = NoUtil
    /\ dg = NoDG
    /\ pc = "idle"
    /\ args = [num_qubits |-> 0, network_layout |-> "spin",
               connectivity_type |-> "full", depth |-> 0]
    /\ depth = 0
    /\ links = NoLinks
    /\ cnots = NoArray
    /\ layer = 0
    /\ i = 0
    /\ j = 0
    /\ mult = NoArray
    /\ exc = "none"
    /\ NoCircuit

NextAQC ==
    \/ \E side \in Sides, thetas0 \in Thetas0Args :
         compile_unitary(side, << <<1, 2>>, <<2, 1>> >>, thetas0)
    \/ ParametricCircuit_init
    \/ compile_unitary_optimize

SpecAQC == InitAQC /\ [][NextAQC]_vars

----------------------------------------------------------------------------
(* DefaultGradient of gradient.py.  A matrix is kept as the product it is: *)
(* the sequence of its factors from left to right, the gates placed on     *)
(* their qubits, or zero; a slice without columns has the shape (d, 0).    *)
(* The value of an angle stands for the rotation matrix of that angle.     *)

MaxBlocks == 4          \* the CNOT structures of a DefaultGradient have at most so many columns

(* a Pauli matrix placed on a qubit *)
Pauli(axis, qubit) == [gate |-> axis, angle |-> 0, qubits |-> <<qubit>>]

Matrix(factors) == [cols |-> "d", zero |-> FALSE, factors |-> factors]

(* np.eye(d), np.zeros((d, d)) and an array of shape (d, 0) *)
Eye == Matrix(<<>>)
Zeros == [cols |-> "d", zero |-> TRUE, factors |-> <<>>]
NoColumns == [cols |-> "0", zero |-> FALSE, factors |-> <<>>]

(* np.dot(a, b) of a (d, .) array with a (d, .) array raises ValueError *)
(* unless a has d columns                                               *)
DotRaises(a, b) == a.cols # "d"

(* np.dot(a, b) *)
Dot(a, b) ==
    IF b.cols = "0" THEN NoColumns
    ELSE IF a.zero \/ b.zero THEN Zeros
    ELSE Matrix(a.factors \o b.factors)

(* np.zeros((d, d * num_cnots)), block by block *)
ZeroTable(num_cnots) == [k \in 1..num_cnots |-> Zeros]

(* table[:, d * k: d * (k + 1)] for k >= 0: past the end the slice has no *)
(* columns                                                                *)
Block(table, k) == IF k < Len(table) THEN table[k + 1] ELSE NoColumns

(* the CNOT unit of cnot_index, full_q2 . full_q1 . cnot_q1q2, with the   *)
(* Pauli matrix of the pass i of `for i in range(4)` inserted (no pass:   *)
(* i = -1, the unit itself)                                               *)
CnotUnit(c_nots, thetas, cnot_index, pass) ==
    LET theta_index == 4 * cnot_index
        q1 == c_nots[1][cnot_index + 1]
        q2 == c_nots[2][cnot_index + 1]
        ry1 == <<Rotation("ry", At(thetas, 0 + theta_index), q1)>>
        rz1 == <<Rotation("rz", At(thetas, 1 + theta_index), q1)>>
        ry2 == <<Rotation("ry", At(thetas, 2 + theta_index), q2)>>
        rx2 == <<Rotation("rx", At(thetas, 3 + theta_index), q2)>>
        single_q1 == IF pass = 0 THEN rz1 \o <<Pauli("Y", q1)>> \o ry1
                     ELSE IF pass = 1 THEN <<Pauli("Z", q1)>> \o rz1 \o ry1
                     ELSE rz1 \o ry1
        single_q2 == IF pass = 2 THEN rx2 \o <<Pauli("Y", q2)>> \o ry2
                     ELSE IF pass = 3 THEN <<Pauli("X", q2)>> \o rx2 \o ry2
                     ELSE rx2 \o ry2
    IN  Matrix(single_q2 \o single_q1 \o <<Cx(q1, q2)>>)

(* cnot_unit_collection after the first loop *)
UnitCollection(c_nots, thetas, num_cnots) ==
    [k \in 1..num_cnots |-> CnotUnit(c_nots, thetas, k - 1, -1)]

(* the factor of a pass of the loop from the right-hand side: the block *)
(* of cnot_right_collection, not the one of cnot_unit_collection        *)
RightFactor(unit, right, cnot_index) == Block(right, cnot_index)

(* for cnot_index in range(num_cnots - 1, -1, -1): the passes cnot_index, *)
(* .., 0; the table and cnot_matrix after them                            *)
RECURSIVE RightLoop(_, _, _, _)
RightLoop(unit, right, cnot_matrix, cnot_index) ==
    IF cnot_index < 0 THEN [table |-> right, cnot_matrix |-> cnot_matrix]
    ELSE LET m == Dot(cnot_matrix, RightFactor(unit, right, cnot_index))
         IN  RightLoop(unit, [right EXCEPT ![cnot_index + 1] = m], m, cnot_index - 1)

(* for cnot_index in range(num_cnots): the passes cnot_index, .., *)
(* num_cnots - 1; the table and cnot_matrix after them            *)
RECURSIVE LeftLoop(_, _, _)
LeftLoop(left, cnot_matrix, cnot_index) ==
    IF cnot_index >= Len(left) THEN [table |-> left, cnot_matrix |-> cnot_matrix]
    ELSE LET m == Dot(Block(left, cnot_index), cnot_matrix)
         IN  LeftLoop([left EXCEPT ![cnot_index + 1] = m], m, cnot_index + 1)

(* the Kronecker product of rz0 . ry1 . rz2 over the qubits q, .., n - 1, *)
(* with the Pauli matrix of the pass i of `for i in range(3 * n)`         *)
(* inserted (no pass: i = -1, rotation_matrix itself)                     *)
RECURSIVE RotationFactors(_, _, _, _, _)
RotationFactors(n, num_cnots, thetas, pass, q) ==
    IF q >= n THEN <<>>
    ELSE LET theta_index == 4 * num_cnots + 3 * q
             at == IF pass < 0 THEN -1 ELSE pass - 3 * q
             rz0 == <<Rotation("rz", At(thetas, 0 + theta_index), q)>>
             ry1 == <<Rotation("ry", At(thetas, 1 + theta_index), q)>>
             rz2 == <<Rotation("rz", At(thetas, 2 + theta_index), q)>>
         IN  (IF at = 0 THEN <<Pauli("Z", q)>> ELSE <<>>) \o rz0
             \o (IF at = 1 THEN <<Pauli("Y", q)>> ELSE <<>>) \o ry1
             \o (IF at = 2 THEN <<Pauli("Z", q)>> ELSE <<>>) \o rz2
             \o RotationFactors(n, num_cnots, thetas, pass, q + 1)

RotationMatrix(n, num_cnots, thetas, pass) ==
    Matrix(RotationFactors(n, num_cnots, thetas, pass, 0))

(* der = np.zeros(..): no entry is written; der[index] = value counts the *)
(* write and keeps der_circuit_matrix (term) and the derivative of the    *)
(* unit or of the rotation layer it was made of (part)                    *)
ZeroDer(size) == [k \in 1..size |-> [writes |-> 0, term |-> Zeros, part |-> Zeros]]
WriteDer(der, index, term, part) ==
    [der EXCEPT ![index + 1] = [writes |-> @.writes + 1, term |-> term, part |-> part]]

(* what the choice of the neighbours of the unit cnot_index raises *)
NeighbourRaises(right, left, num_cnots, cnot_index) ==
    IF cnot_index = 0
    THEN IF DotRaises(Block(right, 1), Eye) THEN "ValueError" ELSE "none"
    ELSE IF num_cnots - 1 = cnot_index THEN "none"
    ELSE "NameError"        \* right_cnot_collection, left_cnot_collection are not defined

(* der_cnot_matrix of the unit cnot_index *)
DerCnotMatrix(right, left, num_cnots, cnot_index, der_cnot_unit) ==
    IF cnot_index = 0 THEN Dot(Block(right, 1), der_cnot_unit)
    ELSE Dot(der_cnot_unit, Block(left, num_cnots - 2))

(* the passes 0..3 of `for i in range(4)` for the unit cnot_index, from *)
(* the pass i                                                           *)
RECURSIVE UnitPasses(_, _, _, _)
UnitPasses(loc, der, cnot_index, pass) ==
    IF pass > 3 THEN der
    ELSE LET der_cnot_unit == CnotUnit(loc.cnots, loc.thetas, cnot_index, pass)
             der_cnot_matrix == DerCnotMatrix(loc.right, loc.left, loc.num_cnots,
                                              cnot_index, der_cnot_unit)
             der_circuit_matrix == Dot(der_cnot_matrix, loc.rotation_matrix)
         IN  UnitPasses(loc, WriteDer(der, pass + 4 * cnot_index, der_circuit_matrix,
                                      der_cnot_unit),
                        cnot_index, pass + 1)

(* for cnot_index in range(num_cnots) of the derivatives of the CNOT *)
(* part, from the pass cnot_index: der and the exception that ends it *)
RECURSIVE CnotDerivatives(_, _, _)
CnotDerivatives(loc, der, cnot_index) ==
    IF cnot_index >= loc.num_cnots THEN [exc |-> "none", der |-> der]
    ELSE LET e == NeighbourRaises(loc.right, loc.left, loc.num_cnots, cnot_index)
         IN  IF e # "none" THEN [exc |-> e, der |-> der]
             ELSE CnotDerivatives(loc, UnitPasses(loc, der, cnot_index, 0), cnot_index + 1)

(* for i in range(3 * n) of the derivatives of the rotation part, from *)
(* the pass i                                                          *)
RECURSIVE RotationDerivatives(_, _, _)
RotationDerivatives(loc, der, pass) ==
    IF pass >= 3 * loc.n THEN der
    ELSE LET der_rotation_matrix == RotationMatrix(loc.n, loc.num_cnots, loc.thetas, pass)
             der_circuit_matrix == Dot(loc.cnot_matrix, der_rotation_matrix)
         IN  RotationDerivatives(loc, WriteDer(der, 4 * loc.num_cnots + pass,
                                               der_circuit_matrix, der_rotation_matrix),
                                 pass + 1)

(* the locals of get_gradient before its first statement *)
NoLocals ==
    [exc |-> "none", n |-> 0, num_cnots |-> 0, cnots |-> NoArray, thetas |-> <<>>,
     unit |-> <<>>, right |-> <<>>, left |-> <<>>, cnot_matrix |-> Eye,
     rotation_matrix |-> Eye, circuit_matrix |-> Eye, der |-> <<>>]

(* DefaultGradient.get_gradient(thetas, target_matrix) for a target of *)
(* shape (2^n, 2^n): the exception that ends it ("none": it returns    *)
(* error and der) and its locals at that moment; e is how the          *)
(* elementary operations end                                           *)
DefaultGradient_get_gradient(self, thetas, e) ==
    LET n == self._num_qubits
        num_cnots == NumColumns(self._cnots)
        loc0 == [NoLocals EXCEPT !.n = n, !.num_cnots = num_cnots, !.cnots = self._cnots,
                                 !.thetas = thetas,
                                 !.right = ZeroTable(num_cnots), !.left = ZeroTable(num_cnots)]
    IN  IF num_cnots > 0 /\ Len(thetas) < 4 * num_cnots THEN [loc0 EXCEPT !.exc = "IndexError"]
        ELSE IF num_cnots > 0 /\ e # "none" THEN [loc0 EXCEPT !.exc = e]
        ELSE
        LET unit == UnitCollection(self._cnots, thetas, num_cnots)
            fromright == RightLoop(unit, loc0.right, Eye, num_cnots - 1)
            fromleft == LeftLoop(loc0.left, Eye, 0)
            loc1 == [loc0 EXCEPT !.unit = unit, !.right = fromright.table,
                                 !.left = fromleft.table,
                                 !.cnot_matrix = fromleft.cnot_matrix]
        IN  IF Len(thetas) < 4 * num_cnots + 3 * n THEN [loc1 EXCEPT !.exc = "IndexError"]
            ELSE
            LET rotation_matrix == RotationMatrix(n, num_cnots, thetas, -1)
                loc2 == [loc1 EXCEPT !.rotation_matrix = rotation_matrix,
                                     !.circuit_matrix = Dot(loc1.cnot_matrix, rotation_matrix),
                                     !.der = ZeroDer(4 * num_cnots + 3 * n)]
                units == CnotDerivatives(loc2, loc2.der, 0)
            IN  IF units.exc # "none" THEN [loc2 EXCEPT !.exc = units.exc, !.der = units.der]
                ELSE [loc2 EXCEPT !.der = RotationDerivatives(loc2, units.der, 0)]

(* DefaultGradient(num_qubits, cnots) *)
DefaultGradient_init ==
    /\ dg.made = "new"
    /\ dg' = IF DefaultGradientRaises(dg.num_qubits, dg.cnots)
             THEN [dg EXCEPT !.made = "failed"]
             ELSE [dg EXCEPT !.made = "live",
                             !.self = [_num_qubits |-> dg.num_qubits, _cnots |-> dg.cnots,
                                       _num_cnots |-> NumColumns(dg.cnots)]]
    /\ UNCHANGED <<net, circuit, util, aqc, run>>

(* a call of get_gradient on the object *)
DefaultGradient_call(thetas) ==
    /\ \E e \in NumpyOutcomes(dg.self._num_qubits, dg.self._cnots) :
         dg' = [dg EXCEPT !.called = TRUE,
                          !.loc = DefaultGradient_get_gradient(dg.self, thetas, e)]
    /\ UNCHANGED <<net, circuit, util, aqc, run>>

(* the CNOT structures a DefaultGradient is made with: the first L pairs *)
(* of (1,2), (2,3), (1,2), ... or of (2,1), (1,2), (2,1), ... for        *)
(* L = 0..MaxBlocks, and an array of three rows                          *)
GradientCnots ==
    {<< [k \in 1..L |-> 1 + ((k + 1) % 2)], [k \in 1..L |-> 2 + ((k + 1) % 2)] >> :
        L \in 0..MaxBlocks}
    \cup {<< [k \in 1..L |-> 1 + (k % 2)], [k \in 1..L |-> 2 - (k % 2)] >> : L \in 0..MaxBlocks}
    \cup {<< <<1>>, <<2>>, <<1>> >>}

(* the qubit counts: around the accepted range, and up to three *)
GradientQubits == {0, 1, 2, 3, MaxBackendQubits + 1}

(* the angle vectors of a call: 1, 2, .. of the right length, one short, *)
(* one long, and a constant one of the right length                      *)
GradientThetas(size) ==
    {[k \in 1..m |-> k] : m \in {size - 1, size, size + 1} \cap Nat}
    \cup {[k \in 1..size |-> 1]}

NewDG(n, c) ==
    [made |-> "new", num_qubits |-> n, cnots |-> c,
     self |-> [_num_qubits |-> 0, _cnots |-> NoArray, _num_cnots |-> 0],
     called |-> FALSE, loc |-> NoLocals]

InitGradient ==
    /\ dg \in {NewDG(n, c) : n \in GradientQubits, c \in GradientCnots}
    /\ util = NoUtil
    /\ aqc = NoAQC
    /\ run = NoRun
    /\ pc = "idle"
    /\ args = [num_qubits |-> 0, network_layout |-> "spin",
               connectivity_type |-> "full", depth |-> 0]
    /\ depth = 0
    /\ links = NoLinks
    /\ cnots = NoArray
    /\ layer = 0
    /\ i = 0
    /\ j = 0
    /\ mult = NoArray
    /\ exc = "none"
    /\ NoCircuit

NextGradient ==
    \/ DefaultGradient_init
    \/ /\ dg.made = "live"
       /\ \E thetas \in GradientThetas(NumThetas(dg.self._num_qubits, dg.self._num_cnots)) :
            DefaultGradient_call(thetas)

SpecGradient == InitGradient /\ [][NextGradient]_vars

----------------------------------------------------------------------------
(* Properties of make_cnot_network (checked under SpecNet). *)

Returned == pc = "done" /\ exc = "none"

Column(c, k) == <<c[1][k], c[2][k]>>

(* the connectivity names a layout is documented to work with *)
ValidConnectivity(layout, connectivity) ==
    IF layout \in {"spin", "cyclic_spin"} THEN connectivity = "full"
    ELSE IF layout = "cyclic_line" THEN connectivity = "line"
    ELSE connectivity \in _CONNECTIVITY_TYPES

DefaultDepthCall ==
    /\ pc = "done"
    /\ args.depth = 0
    /\ args.num_qubits >= 2
    /\ args.network_layout \in _NETWORK_LAYOUTS
    /\ ValidConnectivity(args.network_layout, args.connectivity_type)

ValidDefaultNetwork ==
    /\ exc = "none"
    /\ NumColumns(cnots) >= lower_limit(args.num_qubits)
    /\ check_cnots(args.num_qubits, cnots)

(* C1 as stated: for every n >= 2, every supported layout and every       *)
(* connectivity valid for it, make_cnot_network(n, layout, connectivity, *)
(* 0) returns a network of at least lower_limit(n) columns that passes    *)
(* check_cnots.                                                           *)
C1_AsStated == DefaultDepthCall => ValidDefaultNetwork

(* C1 (amended): the same for every n >= 2 with the layouts sequ, spin,   *)
(* cyclic_spin and cyclic_line, and for every n >= 3 with the cart layout *)
(* (which raises ValueError for two qubits).                              *)
C1_DefaultNetworkValid ==
    DefaultDepthCall =>
        IF args.network_layout = "cart" /\ args.num_qubits = 2
        THEN exc = "ValueError"
        ELSE ValidDefaultNetwork

C1_Witness ==
    /\ DefaultDepthCall
    /\ args.network_layout = "cart"
    /\ args.num_qubits = 4
    /\ exc = "none"
    /\ NumColumns(cnots) = 120

(* C2: lower_limit(n) is the ceiling of (4^n - 3n - 1) / 4, i.e. the      *)
(* least integer c with 4c >= 4^n - 3n - 1, for every n >= 2; it is 3, 14 *)
(* and 61 for n = 2, 3 and 4.  Observed as the depth chosen by a call     *)
(* with a non-positive depth argument.                                    *)
C2_LowerLimit ==
    (pc # "call" /\ args.depth <= 0 /\ args.num_qubits >= 2) =>
        LET n == args.num_qubits
            x == Pow(4, n) - 3 * n - 1
        IN  /\ 4 * depth >= x
            /\ 4 * (depth - 1) < x
            /\ (n = 2 => depth = 3)
            /\ (n = 3 => depth = 14)
            /\ (n = 4 => depth = 61)

C2_Witness ==
    /\ pc # "call"
    /\ args.depth <= 0
    /\ args.num_qubits = 4
    /\ depth = 61

(* C3: for the layouts sequ, spin, cyclic_spin and cyclic_line (n >= 2,   *)
(* connectivity valid for the layout) the returned array has exactly L    *)
(* columns when L > 0 and lower_limit(n) columns when L <= 0, and no      *)
(* column still holds its initial value (0, 0), which the final           *)
(* `cnots += 1` of the cyclic layouts turns into (1, 1).                  *)
LoopLayouts == {"sequ", "spin", "cyclic_spin", "cyclic_line"}

InitialColumn(layout) ==
    IF layout \in {"cyclic_spin", "cyclic_line"} THEN <<1, 1>> ELSE <<0, 0>>

C3_ExactDepth ==
    (/\ pc = "done"
     /\ args.num_qubits >= 2
     /\ args.network_layout \in LoopLayouts
     /\ ValidConnectivity(args.network_layout, args.connectivity_type))
    => /\ exc = "none"
       /\ Len(cnots[1]) = Len(cnots[2])
       /\ NumColumns(cnots) =
            (IF args.depth > 0 THEN args.depth ELSE lower_limit(args.num_qubits))
       /\ \A k \in 1..NumColumns(cnots) :
            Column(cnots, k) # InitialColumn(args.network_layout)

C3_Witness ==
    /\ Returned
    /\ args.network_layout = "cyclic_spin"
    /\ args.num_qubits = 3
    /\ args.depth = 5
    /\ NumColumns(cnots) = 5

(* C4: for the sequ layout (n >= 2, connectivity full, line or star) let  *)
(* P be the pairs (a, b), 1 <= a < b <= n, b in links[a], in row-major    *)
(* order; column k (k = 0..L-1) of the result is P[k mod |P|].            *)
AllowedPairs(n, lk) == {p \in (1..n) \X (1..n) : p[1] < p[2] /\ p[2] \in lk[p[1]]}

RowMajorBefore(p, q) == p[1] < q[1] \/ (p[1] = q[1] /\ p[2] < q[2])

(* 0-based position of pair p in the row-major list of the set pairs *)
RowMajorIndex(pairs, p) == Cardinality({q \in pairs : RowMajorBefore(q, p)})

C4_SequentialOrder ==
    (/\ Returned
     /\ args.network_layout = "sequ"
     /\ args.num_qubits >= 2)
    => LET P == AllowedPairs(args.num_qubits, links)
       IN  /\ P # {}
           /\ \A k \in 1..NumColumns(cnots) :
                /\ Column(cnots, k) \in P
                /\ RowMajorIndex(P, Column(cnots, k)) = (k - 1) % Cardinality(P)

C4_Witness ==
    /\ Returned
    /\ args.network_layout = "sequ"
    /\ args.connectivity_type = "star"
    /\ args.num_qubits = 4
    /\ NumColumns(cnots) = 7
    /\ Column(cnots, 4) = <<1, 2>>
    /\ Column(cnots, 7) = <<1, 2>>

(* C5: for the spin layout with n >= 2 the result is the cyclic            *)
(* repetition, cut to L columns, of the sweep (1,2),(3,4),... followed by  *)
(* the sweep (2,3),(4,5),...; and the spin layout is accepted only with    *)
(* full connectivity.                                                      *)
SpinSweep(n) ==
    LET odd == {a \in 1..(n - 1) : a % 2 = 1}
        even == {a \in 1..(n - 1) : a % 2 = 0}
        \* position (from 0) of the pair starting at a within the two sweeps
        pos(a) == IF a % 2 = 1 THEN (a - 1) \div 2
                  ELSE Cardinality(odd) + (a - 2) \div 2
    IN  [k \in 0..(n - 2) |-> CHOOSE a \in odd \cup even : pos(a) = k]

IsSpinNetwork(n, c) ==
    \A k \in 1..NumColumns(c) :
        LET a == SpinSweep(n)[(k - 1) % (n - 1)]
        IN  Column(c, k) = <<a, a + 1>>

C5_AsStated ==
    (pc = "done" /\ args.network_layout = "spin" /\ args.num_qubits >= 2)
    => IF args.connectivity_type = "full"
       THEN exc = "none" /\ IsSpinNetwork(args.num_qubits, cnots)
       ELSE exc # "none"

(* C6: for cyclic_spin and cyclic_line, every n >= 3 and every depth that *)
(* holds one full cycle of sweeps, the result contains the ring-closing   *)
(* pair joining qubit n to qubit 1.                                       *)
HasRingClosingPair(n, c) ==
    \E k \in 1..NumColumns(c) : {c[1][k], c[2][k]} = {n, 1}

C6_AsStated ==
    (/\ Returned
     /\ args.network_layout \in {"cyclic_spin", "cyclic_line"}
     /\ args.num_qubits >= 3
     /\ NumColumns(cnots) >= args.num_qubits)
    => HasRingClosingPair(args.num_qubits, cnots)

(* C7: make_cnot_network raises ValueError whenever the layout name or    *)
(* the connectivity name is not a supported one, for every n >= 1 and     *)
(* every depth; it never returns a topology for an unknown name.          *)
UnknownName ==
    \/ args.network_layout \notin _NETWORK_LAYOUTS
    \/ args.connectivity_type \notin _CONNECTIVITY_TYPES

C7_AsStated == (pc = "done" /\ UnknownName) => exc = "ValueError"

----------------------------------------------------------------------------
(* Properties of ParametricCircuit (checked under Spec). *)

Constructed == obj \in {"live", "failed"}

(* number of columns of the topology the circuit holds *)
TopologyColumns == Len(_cnots[1])

(* C8: constructing a ParametricCircuit with an explicit topology fails,  *)
(* and no object is produced, whenever the topology is not of shape       *)
(* (2, L), holds a qubit index outside [1, n], or holds a column with two *)
(* equal entries.                                                         *)
C8_AsStated ==
    (/\ Constructed
     /\ ctor.cnots # None
     /\ ~check_cnots(ctor.num_qubits, ctor.cnots))
    => obj = "failed"

(* C9: set_thetas(v) with len(v) # 4L+3n raises ValueError and leaves the *)
(* parameter vector as it was; with len(v) = 4L+3n the parameter vector   *)
(* afterwards equals v element by element.                                *)
C9_SetThetas ==
    [][(obj = "live" /\ call'.op = "set_thetas") =>
        LET v == call'.thetas
        IN  IF Len(v) # 4 * TopologyColumns + 3 * _num_qubits
            THEN call'.exc = "ValueError" /\ _thetas' = _thetas
            ELSE /\ call'.exc = "none"
                 /\ Len(_thetas') = Len(v)
                 /\ \A k \in 1..Len(v) : _thetas'[k] = v[k]]_vars

(* a call of wrong size has left parameters set by an earlier call *)
C9_Witness ==
    /\ obj = "live"
    /\ call.op = "set_thetas"
    /\ call.exc = "ValueError"
    /\ Len(call.thetas) = 4 * TopologyColumns + 3 * _num_qubits + 1
    /\ _thetas = [k \in 1..(4 * TopologyColumns + 3 * _num_qubits) |-> k]

(* C10: after set_nonzero_thetas(values, mask) with a mask of length      *)
(* 4L+3n with exactly k true entries and k values, the i-th true position *)
(* of the mask holds values[i] and every position where the mask is       *)
(* false holds 0, whatever the parameter vector held before.              *)
TrueUpTo(mask, p) == Cardinality({q \in 1..p : mask[q]})

C10_SetNonzeroThetas ==
    [][(/\ obj = "live"
        /\ call'.op = "set_nonzero_thetas"
        /\ Len(call'.nonzero_mask) = 4 * TopologyColumns + 3 * _num_qubits
        /\ TrueUpTo(call'.nonzero_mask, Len(call'.nonzero_mask)) = Len(call'.thetas))
       => /\ call'.exc = "none"
          /\ Len(_thetas') = Len(call'.nonzero_mask)
          /\ \A p \in 1..Len(_thetas') :
                _thetas'[p] = IF call'.nonzero_mask[p]
                              THEN call'.thetas[TrueUpTo(call'.nonzero_mask, p)]
                              ELSE 0]_vars

(* the mask [True, False, True, False, ...] applied to a 2-qubit circuit *)
(* of one CNOT unit                                                      *)
C10_Witness ==
    /\ obj = "live"
    /\ call.op = "set_nonzero_thetas"
    /\ call.exc = "none"
    /\ call.nonzero_mask = [k \in 1..10 |-> k % 2 = 1]
    /\ _thetas = <<11, 0, 12, 0, 13, 0, 14, 0, 15, 0>>

(* C11: set_nonzero_thetas raises ValueError when the mask length differs *)
(* from 4L+3n or when the number of true mask entries differs from the    *)
(* number of values, and in both cases the parameter vector is left as it *)
(* was (it is not zero-filled before the error).                          *)
C11_SetNonzeroThetasFails ==
    [][(/\ obj = "live"
        /\ call'.op = "set_nonzero_thetas"
        /\ \/ Len(call'.nonzero_mask) # 4 * TopologyColumns + 3 * _num_qubits
           \/ TrueUpTo(call'.nonzero_mask, Len(call'.nonzero_mask)) # Len(call'.thetas))
       => /\ call'.exc = "ValueError"
          /\ _thetas' = _thetas]_vars

(* a mask of the right length with one value too many has been rejected, *)
(* the nonzero parameters of an earlier set_thetas being kept            *)
C11_Witness ==
    /\ obj = "live"
    /\ call.op = "set_nonzero_thetas"
    /\ call.exc = "ValueError"
    /\ Len(call.nonzero_mask) = 4 * TopologyColumns + 3 * _num_qubits
    /\ Len(call.thetas) = TrueUpTo(call.nonzero_mask, Len(call.nonzero_mask)) + 1
    /\ _thetas = [k \in 1..(4 * TopologyColumns + 3 * _num_qubits) |-> k]

----------------------------------------------------------------------------
(* Properties of the methods of ParametricCircuit (checked under *)
(* SpecMethods).                                                 *)

(* C12: in every state of a constructed circuit, after any sequence of    *)
(* successful or failing set_thetas, set_nonzero_thetas,                  *)
(* init_gradient_backend, get_gradient, to_numpy and to_qiskit calls, the *)
(* parameter vector has length 4L+3n for the L columns of the topology    *)
(* and the qubit count n given at construction, and num_thetas and        *)
(* num_angles both report this value.                                     *)
C12_ThetasLength ==
    obj = "live" =>
        LET expected == 4 * TopologyColumns + 3 * ctor.num_qubits
        IN  /\ Len(_thetas) = expected
            /\ num_thetas = expected
            /\ num_angles = expected

(* a 2-qubit circuit of two CNOT units after a rejected backend name, its *)
(* 14 parameters nonzero                                                  *)
C12_Witness ==
    /\ obj = "live"
    /\ call.op = "init_gradient_backend"
    /\ call.exc = "ValueError"
    /\ ctor.num_qubits = 2
    /\ TopologyColumns = 2
    /\ Len(_thetas) = 14
    /\ _thetas[14] = 14

(* C13: init_gradient_backend(name) with a name other than "default" or   *)
(* "fast" raises ValueError and changes no state: the backend bound       *)
(* before the failing call is still bound after it.                       *)
C13_AsStated ==
    [][(/\ obj = "live"
        /\ call'.op = "init_gradient_backend"
        /\ call'.backend \notin {"default", "fast"})
       => /\ call'.exc = "ValueError"
          /\ _gradient' = _gradient]_vars

(* C14: get_gradient raises RuntimeError if and only if no backend is     *)
(* bound (none passed at construction and no successful                   *)
(* init_gradient_backend so far); otherwise it delegates to the backend   *)
(* of the most recent successful init_gradient_backend (or the            *)
(* constructor argument) and passes the current parameter vector.         *)
C14_AsStated ==
    (obj = "live" /\ call.op = "get_gradient") =>
        IF selected = "None"
        THEN call.exc = "RuntimeError"
        ELSE /\ call.exc # "RuntimeError"
             /\ call.backend = selected
             /\ call.thetas = _thetas

(* C20: to_qiskit(tol, reverse) emits exactly one CNOT per topology       *)
(* column, in topology order and whatever tol is, and the rotation of     *)
(* parameter index p if and only if |thetas[p]| > tol: the output holds L *)
(* CNOTs and, of every angle value, as many rotations as there are        *)
(* parameters of that value above the threshold (at most 4L+3n in all);   *)
(* with reverse = False the 0-based qubit q is mapped to n-1-q, with      *)
(* reverse = True it is left unchanged.                                   *)
IsCx(g) == g.gate = "cx"
IsRotation(g) == g.gate \in {"rx", "ry", "rz"}

AboveThreshold(x, tol) == x > tol \/ (0 - x) > tol

ExportedQubit(q) == IF call.reverse THEN q ELSE ctor.num_qubits - 1 - q

C20_ToQiskit ==
    (obj = "live" /\ call.op = "to_qiskit") =>
        LET out == call.result
            cxs == SelectSeq(out, IsCx)
            rotations == SelectSeq(out, IsRotation)
            L == TopologyColumns
        IN  /\ call.exc = "none"
            /\ Len(cxs) = L
            /\ \A c \in 1..L :
                  cxs[c].qubits = <<ExportedQubit(_cnots[1][c] - 1),
                                    ExportedQubit(_cnots[2][c] - 1)>>
            /\ Len(rotations) <= 4 * L + 3 * ctor.num_qubits
            /\ Len(rotations) + Len(cxs) = Len(out)
            /\ \A x \in {_thetas[p] : p \in 1..Len(_thetas)}
                        \cup {rotations[k].angle : k \in 1..Len(rotations)} :
                  Cardinality({k \in 1..Len(rotations) : rotations[k].angle = x})
                  = IF AboveThreshold(x, call.tol)
                    THEN Cardinality({p \in 1..Len(_thetas) : _thetas[p] = x})
                    ELSE 0

(* an export with threshold 2 and the qubit order reversed that has kept *)
(* a rotation of negative angle and has left some rotations out          *)
C20_Witness ==
    /\ obj = "live"
    /\ call.op = "to_qiskit"
    /\ call.tol = 2
    /\ ~call.reverse
    /\ \E k \in 1..Len(call.result) :
          IsRotation(call.result[k]) /\ call.result[k].angle < 0
    /\ \E p \in 1..Len(_thetas) : _thetas[p] \in {-2, 0, 1, 2}
    /\ check_cnots(ctor.num_qubits, _cnots)
    /\ TopologyColumns >= 2

----------------------------------------------------------------------------
(* Properties of the bit and permutation utilities (checked under *)
(* SpecBits).                                                     *)

(* bit b of the natural number x *)
BitOf(x, b) == (x \div Pow(2, b)) % 2

(* the array a holds every number of 0..size-1 exactly once *)
IsBijection(a, size) ==
    /\ Len(a) = size
    /\ {a[w] : w \in 1..Len(a)} = 0..(size - 1)

Ended(fn) == util.fn = fn /\ util.out # Pending

(* C15: for every n within the cap and every valid qubit index,           *)
(* BitPermutation1Q(n, k) and BitPermutation2Q(n, j, k) with j # k return *)
(* a bijection of 0..2^n-1; for 1Q, perm[v] is v with the bits k and n-1  *)
(* exchanged; for 2Q, bit n-2 of perm[v] is bit j of v and bit n-1 of     *)
(* perm[v] is bit k of v, wherever j and k lie relative to n-2 and n-1.   *)
C15_BitPermutations ==
    /\ (/\ Ended("BitPermutation1Q")
        /\ 0 <= util.k /\ util.k < util.n /\ util.n <= 16)
       => LET n == util.n
              perm == util.out.perm
              from(b) == IF b = util.k THEN n - 1 ELSE IF b = n - 1 THEN util.k ELSE b
          IN  /\ util.out.exc = "none"
              /\ IsBijection(perm, Pow(2, n))
              /\ \A v \in 0..(Pow(2, n) - 1) : \A b \in 0..(n - 1) :
                    BitOf(perm[v + 1], b) = BitOf(v, from(b))
    /\ (/\ Ended("BitPermutation2Q")
        /\ util.j # util.k
        /\ 0 <= util.j /\ util.j < util.n
        /\ 0 <= util.k /\ util.k < util.n
        /\ util.n <= 16)
       => LET n == util.n
              perm == util.out.perm
          IN  /\ util.out.exc = "none"
              /\ IsBijection(perm, Pow(2, n))
              /\ \A v \in 0..(Pow(2, n) - 1) :
                    /\ BitOf(perm[v + 1], n - 2) = BitOf(v, util.j)
                    /\ BitOf(perm[v + 1], n - 1) = BitOf(v, util.k)

(* BitPermutation2Q(4, 0, 2), the case j < n-2 and k = n-2: index 1 (bit 0) *)
(* is sent to 4 (bit 2)                                                     *)
C15_Witness ==
    /\ Ended("BitPermutation2Q")
    /\ util.n = 4 /\ util.j = 0 /\ util.k = 2
    /\ util.out.exc = "none"
    /\ Len(util.out.perm) = 16
    /\ util.out.perm[2] = 4

(* C16: for every permutation p of 0..m-1, inv = InversePermutation(p)    *)
(* satisfies inv[p[i]] = i and p[inv[i]] = i for all i, and inverting inv *)
(* returns p; an array that is not a bijection of 0..m-1 is rejected and  *)
(* nothing is returned; the array passed is not modified.                 *)
C16_InversePermutation ==
    Ended("InversePermutation") =>
        LET p == util.perm
            m == Len(p)
            inv == util.out.inv
        IN  /\ util.out.perm = p
            /\ IF IsBijection(p, m)
               THEN /\ util.out.exc = "none"
                    /\ Len(inv) = m
                    /\ \A w \in 1..m : inv[p[w] + 1] = w - 1
                    /\ \A w \in 1..m : p[inv[w] + 1] = w - 1
                    /\ InversePermutation(inv).inv = p
               ELSE /\ util.out.exc # "none"
                    /\ inv = <<>>

(* the cycle 0 -> 1 -> 2 -> 0 has been inverted *)
C16_Witness ==
    /\ Ended("InversePermutation")
    /\ util.perm = <<1, 2, 0>>
    /\ util.out.exc = "none"
    /\ util.out.inv = <<2, 0, 1>>

(* C17: for 1 <= nbits <= 16 and 0 <= x < 2^nbits, ReverseBits(x, nbits,  *)
(* True) returns the number whose bit i is bit nbits-1-i of x, which is   *)
(* again below 2^nbits and is sent back to x by a second application;     *)
(* ReverseBits(x, nbits, False) returns x; an array argument is treated   *)
(* entry by entry and the caller's array is not modified in either mode.  *)
C17_ReverseBits ==
    (/\ Ended("ReverseBits")
     /\ 1 <= util.nbits /\ util.nbits <= 16
     /\ \A e \in 1..Len(util.x.values) :
           0 <= util.x.values[e] /\ util.x.values[e] < Pow(2, util.nbits))
    => LET x == util.x.values
           res == util.out.result.values
           nbits == util.nbits
       IN  /\ util.out.exc = "none"
           /\ util.out.x = util.x
           /\ util.out.result.isint = util.x.isint
           /\ Len(res) = Len(x)
           /\ IF util.enable
              THEN \A e \in 1..Len(x) :
                      /\ 0 <= res[e] /\ res[e] < Pow(2, nbits)
                      /\ \A b \in 0..(nbits - 1) : BitOf(res[e], b) = BitOf(x[e], nbits - 1 - b)
                      /\ ReverseBits(IntArg(res[e]), nbits, TRUE).result = IntArg(x[e])
              ELSE res = x

(* the array [3, 6] has been reversed within 4 bits *)
C17_Witness ==
    /\ Ended("ReverseBits")
    /\ util.x = ArrayArg(<<3, 6>>)
    /\ util.nbits = 4
    /\ util.enable
    /\ util.out.exc = "none"
    /\ util.out.result = ArrayArg(<<12, 6>>)
    /\ util.out.x = ArrayArg(<<3, 6>>)

----------------------------------------------------------------------------
(* Properties of AQC (checked under SpecAQC). *)

(* a compile_unitary call has derived a qubit count *)
Compiling == run.stage \in {"circuit", "done", "failed"} /\ run.side # 0

(* C18: compile_unitary derives n as log2 of the side length of the       *)
(* target, fails when the side length is not a power of two and never     *)
(* builds a circuit with an n for which 2^n differs from the side length. *)
C18_AsStated ==
    (Compiling /\ obj = "live") => Pow(2, _num_qubits) = run.side

(* the defaults a fresh AQC(maxiter=None, eta=None) takes for n qubits *)
DefaultsFor(n) == _compute_optional_parameters(AQC_init(NoValue, NoValue), n)

(* the first compile_unitary of an AQC made without iteration cap and *)
(* step size                                                          *)
FirstDefaults ==
    /\ Compiling
    /\ run.calls = 1
    /\ aqc.maxiter = NoValue
    /\ aqc.eta = NoValue

----------------------------------------------------------------------------
(* Termination of make_cnot_network (checked under SpecNetFair). *)

(* C24 as stated: make_cnot_network terminates, with a topology or an     *)
(* exception, for every n >= 1, every supported layout, every             *)
(* connectivity and every requested depth >= 0: every call reaches its    *)
(* end.                                                                   *)
C24_AsStated == <>(pc = "done")

----------------------------------------------------------------------------
(* Independence of the runs of one AQC object (checked under SpecAQC). *)

(* C28 as stated: when the AQC was created without an iteration cap and   *)
(* step size, the maxiter and eta in effect in any compile_unitary call   *)
(* are the defaults of the qubit count of that call's target, whatever    *)
(* was compiled before on the same object.                                *)
C28_AsStated ==
    (Compiling /\ aqc.maxiter = NoValue /\ aqc.eta = NoValue) =>
        /\ aqc._maxiter = DefaultsFor(run.num_qubits)._maxiter
        /\ aqc._eta = DefaultsFor(run.num_qubits)._eta

----------------------------------------------------------------------------
(* Properties of generate_random_cnots (checked under SpecRandom). *)

(* the number of columns the claim gives the result *)
RandomColumns ==
    IF args.set_depth_limit /\ lower_limit(args.num_qubits) < args.depth
    THEN lower_limit(args.num_qubits) ELSE args.depth

(* C23 as stated: for every accepted qubit count 1 <= n <= 16 and every   *)
(* depth >= 1, generate_random_cnots returns an array of shape (2, N)     *)
(* whose columns hold two distinct indices from 1..n, with                *)
(* N = min(depth, lower_limit(n)) when set_depth_limit is true and        *)
(* N = depth otherwise.                                                   *)
C23_AsStated ==
    (/\ pc = "done"
     /\ 1 <= args.num_qubits /\ args.num_qubits <= MaxRandomQubits
     /\ 1 <= args.depth) =>
        /\ exc = "none"
        /\ Len(cnots) = 2
        /\ NumColumns(cnots) = RandomColumns
        /\ check_cnots(args.num_qubits, cnots)

----------------------------------------------------------------------------
(* The frame of the operations of a ParametricCircuit (checked under *)
(* SpecFrame).                                                       *)

(* the operations that only read the circuit *)
ReadOnlyOps == {"get_gradient", "to_numpy", "to_qiskit"}

(* C29: the topology of a circuit is the array passed in or generated at  *)
(* construction; no later step (a write of the caller to the arrays it    *)
(* passed, set_thetas, set_nonzero_thetas, init_gradient_backend,         *)
(* get_gradient, to_numpy, to_qiskit) changes the topology or the qubit   *)
(* count; a write of the caller, to_numpy, to_qiskit and get_gradient     *)
(* leave the parameter vector unchanged as well.                          *)
C29_Frame ==
    [][/\ (obj # "live" /\ obj' = "live") =>
             /\ _num_qubits' = ctor.num_qubits
             /\ _cnots' = IF ctor.cnots = None THEN cnots ELSE ctor.cnots
             /\ _num_cnots' = NumColumns(_cnots')
       /\ (obj = "live" /\ obj' = "live") =>
             /\ _cnots' = _cnots
             /\ _num_cnots' = _num_cnots
             /\ _num_qubits' = _num_qubits
             /\ (caller' # caller \/ call'.op \in ReadOnlyOps) => _thetas' = _thetas
      ]_vars

(* the caller has added one to both arrays it passed; the circuit still *)
(* holds what it was made with, and has been exported since             *)
C29_Witness ==
    /\ obj = "live"
    /\ caller.written = {"cnots", "thetas"}
    /\ ctor.cnots = << <<1, 2>>, <<2, 1>> >>
    /\ caller.cnots = << <<2, 3>>, <<3, 2>> >>
    /\ _cnots = << <<1, 2>>, <<2, 1>> >>
    /\ caller.thetas # ctor.thetas
    /\ _thetas = ctor.thetas
    /\ call.op = "to_qiskit"

----------------------------------------------------------------------------
(* Agreement of the two exports of a circuit (checked under SpecMethods). *)

(* a sequence read from right to left *)
Reversed(s) == [k \in 1..Len(s) |-> s[Len(s) + 1 - k]]

(* a factor of to_numpy as the gate of to_qiskit: the qubit of the factor *)
(* counts from `first` (1 in a CNOT unit, 0 in the Kronecker product)     *)
AsGate(g, first) == [g EXCEPT !.qubits = [k \in DOMAIN @ |-> ExportedQubit(@[k] - first)]]
AsGates(s, first) == [k \in 1..Len(s) |-> AsGate(s[k], first)]

(* the Kronecker product V1 of to_numpy read from right to left, qubit by *)
(* qubit: the factors of distinct qubits act side by side                 *)
RECURSIVE KroneckerOrder(_)
KroneckerOrder(s) ==
    IF Len(s) < 3 THEN <<>>
    ELSE Reversed(SubSeq(s, 1, 3)) \o KroneckerOrder(SubSeq(s, 4, Len(s)))

(* the product V . V1 of to_numpy read from right to left *)
ApplicationOrder ==
    AsGates(KroneckerOrder(NumpyRotations(_num_qubits, _num_cnots, _thetas, 0)), 0)
    \o AsGates(Reversed(NumpyUnits(_cnots, _thetas, _num_cnots)), 1)

Nonzero(thetas) == \A p \in 1..Len(thetas) : thetas[p] # 0
Distinct(thetas) == \A p, q \in 1..Len(thetas) : p # q => thetas[p] # thetas[q]

----------------------------------------------------------------------------
(* Properties of DefaultGradient.get_gradient (checked under SpecGradient). *)

(* get_gradient has been called on a DefaultGradient of L columns *)
GradientCalled == dg.made = "live" /\ dg.called
GradientSize == NumThetas(dg.self._num_qubits, dg.self._num_cnots)

(* ... on a valid topology with a parameter vector of length 4L+3n *)
GradientCalledWell ==
    /\ GradientCalled
    /\ check_cnots(dg.self._num_qubits, dg.self._cnots)
    /\ Len(dg.loc.thetas) = GradientSize

(* C21 as stated: for every valid topology of L >= 1 columns (L = 1,      *)
(* L = 2 and every L >= 3), a parameter vector of length 4L+3n and a      *)
(* 2^n x 2^n target, get_gradient returns without raising, the gradient   *)
(* has 4L+3n entries and every entry is written exactly once.             *)
C21_AsStated ==
    (GradientCalledWell /\ dg.self._num_cnots >= 1) =>
        /\ dg.loc.exc = "none"
        /\ Len(dg.loc.der) = GradientSize
        /\ \A p \in 1..Len(dg.loc.der) : dg.loc.der[p].writes = 1

(* C22 as stated: get_gradient fails whenever len(thetas) differs from    *)
(* 4L+3n, for a vector that is too short and for one that is too long; it *)
(* never returns a result computed from a prefix of a longer vector.      *)
C22_AsStated ==
    (GradientCalled /\ Len(dg.loc.thetas) # GradientSize) => dg.loc.exc # "none"

(* the ordered product C_hi ... C_lo of the units lo..hi (0-based) *)
RECURSIVE ChainProduct(_, _, _)
ChainProduct(unit, lo, hi) ==
    IF hi < lo THEN Eye ELSE Dot(Block(unit, hi), ChainProduct(unit, lo, hi - 1))

(* C25 as stated: with the units as symbols C_0..C_{L-1}, one of the two  *)
(* tables holds at index k the ordered product of the units from the last *)
(* down to k, the other the product from k down to the first; the final   *)
(* forward product is C_{L-1} ... C_1 C_0, the composition of to_numpy;   *)
(* the derivative for a parameter of the unit k is (product of the units  *)
(* after k) . dC_k . (product of the units before k), every other unit    *)
(* once and in circuit order.                                             *)
C25_AsStated ==
    (GradientCalledWell /\ dg.self._num_cnots >= 1) =>
        LET L == dg.self._num_cnots
            loc == dg.loc
            after(k) == ChainProduct(loc.unit, k, L - 1)
            before(k) == ChainProduct(loc.unit, 0, k)
        IN  /\ Len(loc.unit) = L
            /\ \/ \A k \in 0..(L - 1) :
                    Block(loc.right, k) = after(k) /\ Block(loc.left, k) = before(k)
               \/ \A k \in 0..(L - 1) :
                    Block(loc.right, k) = before(k) /\ Block(loc.left, k) = after(k)
            /\ loc.cnot_matrix = Matrix(NumpyUnits(dg.self._cnots, loc.thetas, L))
            /\ Len(loc.der) = GradientSize
            /\ \A k \in 0..(L - 1) : \A pass \in 0..3 :
                  loc.der[4 * k + pass + 1].term =
                      Dot(Dot(Dot(after(k + 1),
                                  CnotUnit(dg.self._cnots, loc.thetas, k, pass)),
                              before(k - 1)),
                          loc.rotation_matrix)

IsPauli(g) == g.gate \in {"X", "Y", "Z"}
NotPauli(g) == ~IsPauli(g)

(* the Pauli matrix of the axis of a rotation *)
AxisOf(kind) == IF kind = "rx" THEN "X" ELSE IF kind = "ry" THEN "Y" ELSE "Z"

(* the factors of the matrix of to_numpy *)
CircuitFactors(n, c_nots, thetas) ==
    NumpyUnits(c_nots, thetas, NumColumns(c_nots))
    \o NumpyRotations(n, NumColumns(c_nots), thetas, 0)

(* the product `factors` is the circuit with one Pauli matrix inserted, *)
(* next to the rotation of the given angle, on its qubit and of its     *)
(* axis                                                                 *)
OnePauliAt(factors, whole, angle) ==
    /\ SelectSeq(factors, NotPauli) = whole
    /\ \E t \in 1..Len(factors) :
          /\ IsPauli(factors[t])
          /\ \A u \in 1..Len(factors) : IsPauli(factors[u]) => u = t
          /\ \E u \in {t - 1, t + 1} \cap 1..Len(factors) :
                /\ IsRotation(factors[u])
                /\ factors[u].angle = angle
                /\ factors[u].qubits = factors[t].qubits
                /\ factors[t].gate = AxisOf(factors[u].gate)

(* C27 as stated: for every parameter index p the derivative term is the  *)
(* circuit of to_numpy with exactly one Pauli matrix inserted, of the     *)
(* axis of the rotation p drives (Y for ry, Z for rz, X for rx) and next  *)
(* to it, every other rotation and every CNOT unchanged.                  *)
C27_AsStated ==
    (GradientCalledWell /\ Distinct(dg.loc.thetas)) =>
        /\ Len(dg.loc.der) = GradientSize
        /\ \A p \in 1..Len(dg.loc.der) :
              /\ ~dg.loc.der[p].term.zero
              /\ OnePauliAt(dg.loc.der[p].term.factors,
                            CircuitFactors(dg.self._num_qubits, dg.self._cnots, dg.loc.thetas),
                            dg.loc.thetas[p])

====
